---- MODULE Spec2Model ----
(***************************************************************************)
(* bevy_event_entities: the double-buffered queue of event entities        *)
(* (EventEntities), its cursor reader (ManualEventReader and               *)
(* EntityEventIterator) and the systems that advance the queue.            *)
(***************************************************************************)
EXTENDS Integers, Sequences, FiniteSets, TLC

\* ------------------------------------------------------------------ bounds

\* Events sent over one behaviour (event_count stays <= MaxEvents).
MaxEvents == 3
\* Largest batch handed to send_event_batch / extend.
MaxBatch == 2
Readers == {"r1", "r2"}
\* Entities of the hierarchy the listener engine walks.
NumOwners == 3
\* Events the application sends to the listener engine.
MaxRoots == 1
\* Runs of the listener schedule.
MaxPasses == 2
\* Entities despawned by the application and by callbacks.
MaxDespawns == 1
\* Events sent by callbacks.
MaxCallbackSends == 1
\* Damage events the application sends.
MaxAttacks == 2
\* Largest Health an entity starts with, and largest Damage of an event.
MaxHealth == 2

\* ----------------------------------------------------------------- helpers

Range(s) == {s[i] : i \in 1..Len(s)}

Min(x, y) == IF x <= y THEN x ELSE y

\* usize::saturating_sub
SaturatingSub(x, y) == IF x >= y THEN x - y ELSE 0

\* <[T]>::get(i..).unwrap_or_default(): the suffix from offset i, empty when
\* i is past the end.
SliceFrom(s, i) == IF i > Len(s) THEN <<>> ELSE SubSeq(s, i + 1, Len(s))

\* --------------------------------------------------------- EventEntities

\* EventSequence::default and EventEntities::default
EmptySequence == [events |-> <<>>, start_event_count |-> 0]

DefaultEventEntities ==
    [events_a |-> EmptySequence, events_b |-> EmptySequence, event_count |-> 0]

\* EventEntities::push
Push(q, event) ==
    [q EXCEPT !.events_b.events = Append(@, event),
              !.event_count = @ + 1]

\* Mutant of Extend: the counter kept in the local is never written back.
ExtendKeepsCount(q, iter) ==
    [q EXCEPT !.events_b.events = @ \o iter]

\* impl Extend<Entity> for EventEntities
Extend(q, iter) ==
    [q EXCEPT !.events_b.events = @ \o iter,
              !.event_count = @ + Len(iter)]

\* EventEntities::len
QueueLen(q) == Len(q.events_a.events) + Len(q.events_b.events)

\* EventEntities::is_empty
IsEmpty(q) == QueueLen(q) = 0

\* EventEntities::oldest_event_count
OldestEventCount(q) ==
    Min(q.events_a.start_event_count, q.events_b.start_event_count)

\* Mutant of UpdateDrain: the buffers are not swapped before the drain.
UpdateDrainNoSwap(q) ==
    [queue |-> [q EXCEPT !.events_b.events = <<>>,
                         !.events_b.start_event_count = q.event_count],
     drained |-> q.events_b.events,
     assert_ok |-> q.events_a.start_event_count + Len(q.events_a.events)
                     = q.event_count]

\* EventEntities::update_drain: the queue it leaves, the entities its
\* iterator returns, and whether its debug assertion holds.
UpdateDrain(q) ==
    LET swapped == [q EXCEPT !.events_a = q.events_b, !.events_b = q.events_a]
        after == [swapped EXCEPT !.events_b.events = <<>>,
                                 !.events_b.start_event_count = q.event_count]
    IN  [queue |-> after,
         drained |-> swapped.events_b.events,
         assert_ok |-> after.events_a.start_event_count
                         + Len(after.events_a.events)
                       = after.events_b.start_event_count]

\* Mutant of ResetStartEventCount: only events_a's start count is reset.
ResetStartEventCountOnlyA(q) ==
    [q EXCEPT !.events_a.start_event_count = q.event_count]

\* EventEntities::reset_start_event_count
ResetStartEventCount(q) ==
    [q EXCEPT !.events_a.start_event_count = q.event_count,
              !.events_b.start_event_count = q.event_count]

\* EventEntities::drain: both buffers emptied, events_a's entities returned
\* before events_b's.
DrainAll(q) ==
    LET reset == ResetStartEventCount(q)
    IN  [queue |-> [reset EXCEPT !.events_a.events = <<>>,
                                 !.events_b.events = <<>>],
         drained |-> reset.events_a.events \o reset.events_b.events]

\* Mutant of Clear: the buffers are emptied, the start counts are kept.
ClearKeepsStartCounts(q) ==
    [q EXCEPT !.events_a.events = <<>>, !.events_b.events = <<>>]

\* EventEntities::clear
Clear(q) ==
    LET reset == ResetStartEventCount(q)
    IN  [reset EXCEPT !.events_a.events = <<>>, !.events_b.events = <<>>]

\* Mutant of EventsNotEmpty: only events_b is looked at.
EventsNotEmptyNewerOnly(q) == Len(q.events_b.events) # 0

\* events_not_empty (the run condition of update_events)
EventsNotEmpty(q) ==
    Len(q.events_a.events) # 0 \/ Len(q.events_b.events) # 0

\* ------------------------------------------------------- ManualEventReader

\* ManualEventReader::default
DefaultReader == [last_event_count |-> 0]

\* Mutant of ReaderLen: the difference of the counters is not capped by
\* len().
ReaderLenUnclamped(last_event_count, q) ==
    SaturatingSub(q.event_count, last_event_count)

\* ManualEventReader::len
ReaderLen(last_event_count, q) ==
    Min(SaturatingSub(q.event_count, last_event_count), QueueLen(q))

\* Mutant of IterNew: only the newer buffer is read.
IterNewNewerOnly(last_event_count, q) ==
    LET b == SliceFrom(q.events_b.events,
                       SaturatingSub(last_event_count,
                                     q.events_b.start_event_count))
    IN  [last_event_count |-> q.event_count - Len(b),
         chain |-> b,
         unread |-> Len(b),
         assert_ok |-> Len(b) = ReaderLen(last_event_count, q),
         sub_ok |-> TRUE]

\* Mutant of IterNew: the newer buffer is chained before the older one.
IterNewNewerFirst(last_event_count, q) ==
    LET a == SliceFrom(q.events_a.events,
                       SaturatingSub(last_event_count,
                                     q.events_a.start_event_count))
        b == SliceFrom(q.events_b.events,
                       SaturatingSub(last_event_count,
                                     q.events_b.start_event_count))
    IN  [last_event_count |-> q.event_count - (Len(a) + Len(b)),
         chain |-> b \o a,
         unread |-> Len(a) + Len(b),
         assert_ok |-> Len(a) + Len(b) = ReaderLen(last_event_count, q),
         sub_ok |-> TRUE]

\* Mutant of IterNew: the clamped cursor is not written back to the reader.
IterNewKeepsCursor(last_event_count, q) ==
    LET a == SliceFrom(q.events_a.events,
                       SaturatingSub(last_event_count,
                                     q.events_a.start_event_count))
        b == SliceFrom(q.events_b.events,
                       SaturatingSub(last_event_count,
                                     q.events_b.start_event_count))
    IN  [last_event_count |-> last_event_count,
         chain |-> a \o b,
         unread |-> Len(a) + Len(b),
         assert_ok |-> Len(a) + Len(b) = ReaderLen(last_event_count, q),
         sub_ok |-> TRUE]

\* Mutant of IterNew: the slices start at the oldest retained event
\* whatever the cursor of the reader.
IterNewFromOldest(last_event_count, q) ==
    LET a == q.events_a.events
        b == q.events_b.events
    IN  [last_event_count |-> q.event_count - (Len(a) + Len(b)),
         chain |-> a \o b,
         unread |-> Len(a) + Len(b),
         assert_ok |-> TRUE,
         sub_ok |-> TRUE]

\* EntityEventIterator::new: the cursor it writes back, the chained slices,
\* the unread counter, and whether the debug assertion and the usize
\* subtraction succeed.
IterNew(last_event_count, q) ==
    LET a_index == SaturatingSub(last_event_count,
                                 q.events_a.start_event_count)
        b_index == SaturatingSub(last_event_count,
                                 q.events_b.start_event_count)
        a == SliceFrom(q.events_a.events, a_index)
        b == SliceFrom(q.events_b.events, b_index)
        unread_count == Len(a) + Len(b)
    IN  [last_event_count |-> IF q.event_count >= unread_count
                              THEN q.event_count - unread_count
                              ELSE last_event_count,
         chain |-> a \o b,
         unread |-> unread_count,
         assert_ok |-> unread_count = ReaderLen(last_event_count, q),
         sub_ok |-> q.event_count >= unread_count]

\* An iterator together with the cursor of the reader it borrows:
\* [chain, unread, last_event_count]; the operators below return the state
\* they leave and the item they return (<<>> for None, <<e>> for Some(e)).

\* Mutant of IterNext: the reader's cursor is not advanced.
IterNextKeepsCursor(it) ==
    IF it.chain # <<>>
    THEN [it |-> [chain |-> Tail(it.chain),
                  unread |-> it.unread - 1,
                  last_event_count |-> it.last_event_count],
          item |-> <<Head(it.chain)>>,
          sub_ok |-> it.unread >= 1]
    ELSE [it |-> it, item |-> <<>>, sub_ok |-> TRUE]

\* EntityEventIterator::next
IterNext(it) ==
    IF it.chain # <<>>
    THEN [it |-> [chain |-> Tail(it.chain),
                  unread |-> it.unread - 1,
                  last_event_count |-> it.last_event_count + 1],
          item |-> <<Head(it.chain)>>,
          sub_ok |-> it.unread >= 1]
    ELSE [it |-> it, item |-> <<>>, sub_ok |-> TRUE]

\* EntityEventIterator::count (the iterator is consumed)
IterCount(it) ==
    [it |-> [it EXCEPT !.last_event_count = @ + it.unread],
     result |-> it.unread]

\* EntityEventIterator::last (the iterator is consumed; `?` returns early
\* on an empty chain)
IterLast(it) ==
    IF it.chain = <<>>
    THEN [it |-> it, item |-> <<>>]
    ELSE [it |-> [it EXCEPT !.last_event_count = @ + it.unread],
          item |-> <<it.chain[Len(it.chain)]>>]

\* Mutant of IterNth: a found item advances the cursor by n, not n + 1.
IterNthOffByOne(it, n) ==
    IF n < Len(it.chain)
    THEN [it |-> [chain |-> SubSeq(it.chain, n + 2, Len(it.chain)),
                  unread |-> it.unread - (n + 1),
                  last_event_count |-> it.last_event_count + n],
          item |-> <<it.chain[n + 1]>>,
          sub_ok |-> it.unread >= n + 1]
    ELSE [it |-> [chain |-> <<>>,
                  unread |-> 0,
                  last_event_count |-> it.last_event_count + it.unread],
          item |-> <<>>,
          sub_ok |-> TRUE]

\* Mutant of IterNth: a missing item advances the cursor by n + 1, not by
\* the unread count.
IterNthOvershoots(it, n) ==
    IF n < Len(it.chain)
    THEN [it |-> [chain |-> SubSeq(it.chain, n + 2, Len(it.chain)),
                  unread |-> it.unread - (n + 1),
                  last_event_count |-> it.last_event_count + n + 1],
          item |-> <<it.chain[n + 1]>>,
          sub_ok |-> it.unread >= n + 1]
    ELSE [it |-> [chain |-> <<>>,
                  unread |-> 0,
                  last_event_count |-> it.last_event_count + n + 1],
          item |-> <<>>,
          sub_ok |-> TRUE]

\* Mutant of IterNth: the cursor accounts for the item returned and not
\* for the items passed over.
IterNthYieldedOnly(it, n) ==
    IF n < Len(it.chain)
    THEN [it |-> [chain |-> SubSeq(it.chain, n + 2, Len(it.chain)),
                  unread |-> it.unread - (n + 1),
                  last_event_count |-> it.last_event_count + 1],
          item |-> <<it.chain[n + 1]>>,
          sub_ok |-> it.unread >= n + 1]
    ELSE [it |-> [chain |-> <<>>,
                  unread |-> 0,
                  last_event_count |-> it.last_event_count + it.unread],
          item |-> <<>>,
          sub_ok |-> TRUE]

\* EntityEventIterator::nth; Chain::nth leaves the chain empty when it has
\* no n-th item.
IterNth(it, n) ==
    IF n < Len(it.chain)
    THEN [it |-> [chain |-> SubSeq(it.chain, n + 2, Len(it.chain)),
                  unread |-> it.unread - (n + 1),
                  last_event_count |-> it.last_event_count + n + 1],
          item |-> <<it.chain[n + 1]>>,
          sub_ok |-> it.unread >= n + 1]
    ELSE [it |-> [chain |-> <<>>,
                  unread |-> 0,
                  last_event_count |-> it.last_event_count + it.unread],
          item |-> <<>>,
          sub_ok |-> TRUE]

\* EntityEventIterator::size_hint and ExactSizeIterator::len
SizeHint(it) == Len(it.chain)

ExactLen(it) == it.unread

\* ------------------------------------------------------------------ state

VARIABLES
    events,       \* the EventEntities resource
    signal,       \* the EventUpdateSignal resource
    entities,     \* the entities alive in the World
    nextEntity,   \* the id the World gives to the next spawned entity
    readers,      \* each ManualEventReader: whether it exists, and its cursor
    iters,        \* each reader's EntityEventIterator, while one is alive;
                  \* history: the cursor its read() started from, and
                  \* whether it has been advanced since
    panicked,     \* the assertions and checked subtractions that failed
    log,          \* history: per sent event, its entity, the update_drain
                  \* calls since its push (0, 1, 2 = two or more) and how
                  \* often update_drain returned it (0, 1, 2 = more than once)
    removed,      \* history: entities taken out of the buffers so far
    hist,         \* history per reader: event_count at its creation;
                  \* whether it has, since then, only read with next() and
                  \* completed a read between any two advances; while it has,
                  \* the entities yielded to it and the advances since its
                  \* last completed read; what the iterator it dropped last
                  \* had left to yield
    world,        \* the components and resources the listener engine uses:
                  \* Parent, the events' Target / PropagatedEvent / payload
                  \* type, the callback entities' CallbackIdent and
                  \* CallbackSystemInner, the ListenerInput resource
    listener,     \* the listener systems: which copy of the engine runs,
                  \* their Local state (readers, run_callbacks' Local
                  \* EventEntities) and how far the pass has got
    journal,      \* history: what each event carried when it was sent,
                  \* the callback invocations of the current pass, and
                  \* the passes in which each callback was called for
                  \* each queued entity
    damage,       \* run_damage_schedule: how far it has got, the len() it
                  \* read at the start of the pass, the Local readers of
                  \* the systems of the Attack and Kill schedules, the
                  \* Health and Damage values; history: the pass in which
                  \* each event was sent
    ungated       \* the same application with update_events and the
                  \* reading system run without their run condition: its
                  \* queue, its reader, and what the last read of either
                  \* gave

vars == <<events, signal, entities, nextEntity, readers, iters, panicked,
          log, removed, hist, world, listener, journal, damage, ungated>>

\* The state of the listener engine, untouched by the queue operations.
lvars == <<world, listener, journal, damage, ungated>>

\* The history of the queue and its readers, untouched by the listener
\* engine.
qvars == <<signal, readers, iters, log, removed, hist, ungated>>

\* No hierarchy, no event payload, no callback, no pass running.
NoWorld == [parent |-> <<>>, payload |-> <<>>, callbacks |-> <<>>,
            input |-> <<>>]

NoListener == [engine |-> "none", pc |-> "idle"]

NoJournal ==
    [sent |-> <<>>, ran |-> <<>>, by_callback |-> <<>>,
     initialized |-> [cb \in {} |-> 0], reads |-> <<>>,
     calls |-> [c \in {} |-> <<>>]]

NoDamage == [pc |-> "none"]

NoUngated == [events |-> <<>>]

NoReader == [exists |-> FALSE, last_event_count |-> 0]

NoIter == [live |-> FALSE, chain |-> <<>>, unread |-> 0, from |-> 0,
           untouched |-> FALSE]

NoHist == [yielded |-> <<>>, created_at |-> 0, pending |-> 0,
           compliant |-> TRUE, left |-> <<>>]

\* The state after App construction: init_resource::<EventEntities>(),
\* init_resource::<EventUpdateSignal>(), no reader yet.
Init ==
    /\ events = DefaultEventEntities
    /\ signal = FALSE
    /\ entities = {}
    /\ nextEntity = 1
    /\ readers = [r \in Readers |-> NoReader]
    /\ iters = [r \in Readers |-> NoIter]
    /\ panicked = {}
    /\ log = <<>>
    /\ removed = 0
    /\ hist = [r \in Readers |-> NoHist]
    /\ world = NoWorld
    /\ listener = NoListener
    /\ journal = NoJournal
    /\ damage = NoDamage
    /\ ungated = NoUngated

\* An iterator borrows the queue: nothing mutates the queue while one lives.
NoLiveIter == \A r \in Readers : ~iters[r].live

Running == panicked = {}

\* The entities in either buffer.
Retained(q) == Range(q.events_a.events) \cup Range(q.events_b.events)

NewLog(es) ==
    [i \in 1..Len(es) |-> [entity |-> es[i], age |-> 0, returned |-> 0]]

\* send_event: World::spawn, then EventEntities::push.
SendEvent ==
    /\ Running /\ NoLiveIter
    /\ events.event_count < MaxEvents
    /\ events' = Push(events, nextEntity)
    /\ entities' = entities \cup {nextEntity}
    /\ nextEntity' = nextEntity + 1
    /\ log' = log \o NewLog(<<nextEntity>>)
    /\ UNCHANGED <<signal, readers, iters, panicked, removed, hist>>
    /\ UNCHANGED lvars

\* send_event_batch: World::spawn_batch, then EventEntities::extend.
SendEventBatch(k) ==
    LET batch == [i \in 1..k |-> nextEntity + i - 1]
    IN  /\ Running /\ NoLiveIter
        /\ events.event_count + k <= MaxEvents
        /\ events' = Extend(events, batch)
        /\ entities' = entities \cup Range(batch)
        /\ nextEntity' = nextEntity + k
        /\ log' = log \o NewLog(batch)
        /\ UNCHANGED <<signal, readers, iters, panicked, removed, hist>>
        /\ UNCHANGED lvars

\* signal_event_update
SignalEventUpdate ==
    /\ Running
    /\ signal' = TRUE
    /\ UNCHANGED <<events, entities, nextEntity, readers, iters, panicked,
                   log, removed, hist>>
    /\ UNCHANGED lvars

\* History of one update_drain call: every logged event is one call older,
\* the returned ones are counted.
LogAfterUpdateDrain(drained) ==
    [i \in 1..Len(log) |->
        [log[i] EXCEPT !.age = Min(@ + 1, 2),
                       !.returned = IF log[i].entity \in Range(drained)
                                    THEN Min(@ + 1, 2) ELSE @]]

\* A reader that stopped reading in full keeps no history of its run.
Lapsed(h) == [h EXCEPT !.compliant = FALSE, !.yielded = <<>>, !.pending = 0]

\* History of the readers over an advance: a reader that has not completed
\* a read since the advance before this one has lapsed.
HistAfterUpdateDrain ==
    [r \in Readers |->
        IF ~readers[r].exists THEN hist[r]
        ELSE IF hist[r].compliant /\ hist[r].pending = 0
        THEN [hist[r] EXCEPT !.pending = 1]
        ELSE Lapsed(hist[r])]

\* Mutant of DespawnDrained: the drained entities are left in the World.
DespawnDrainedNone(alive, drained) == alive

\* The loop of update_events over update_drain(): an entity the World
\* still has is despawned, one it no longer has is passed over.
DespawnDrained(alive, drained) == alive \ Range(drained)

\* The queue part of a call of update_drain whose iterator is run to its
\* end or dropped.
CallUpdateDrain ==
    LET res == UpdateDrain(events)
    IN  /\ events' = res.queue
        /\ panicked' = IF res.assert_ok THEN panicked
                       ELSE panicked \cup {"update_drain: debug_assert_eq"}
        /\ log' = LogAfterUpdateDrain(res.drained)
        /\ removed' = removed + Len(res.drained)
        /\ hist' = HistAfterUpdateDrain

\* event_update_systems: update_events.run_if(events_not_empty), chained
\* with reset_event_update_signal. update_events returns early without the
\* signal; otherwise it despawns what update_drain returns.
RunEventUpdateSystems ==
    /\ Running /\ NoLiveIter
    /\ IF EventsNotEmpty(events) /\ signal
       THEN /\ CallUpdateDrain
            /\ entities' = DespawnDrained(entities, UpdateDrain(events).drained)
       ELSE UNCHANGED <<events, panicked, log, removed, hist, entities>>
    /\ signal' = FALSE
    /\ UNCHANGED <<nextEntity, readers, iters>>
    /\ UNCHANGED lvars

\* EventEntities::update called on the resource: update_drain, its iterator
\* dropped, nothing despawned.
Update ==
    /\ Running /\ NoLiveIter
    /\ CallUpdateDrain
    /\ UNCHANGED <<signal, entities, nextEntity, readers, iters>>
    /\ UNCHANGED lvars

\* EventEntities::drain called on the resource, its iterator run to the end.
Drain ==
    LET res == DrainAll(events)
    IN  /\ Running /\ NoLiveIter
        /\ events' = res.queue
        /\ removed' = removed + Len(res.drained)
        /\ UNCHANGED <<signal, entities, nextEntity, readers, iters,
                       panicked, log, hist>>
        /\ UNCHANGED lvars

\* EventEntities::clear called on the resource.
ClearEvents ==
    /\ Running /\ NoLiveIter
    /\ events' = Clear(events)
    /\ removed' = removed + QueueLen(events)
    /\ UNCHANGED <<signal, entities, nextEntity, readers, iters, panicked,
                   log, hist>>
    /\ UNCHANGED lvars

\* ---------------------------------------------------------------- readers

\* The iterator of reader r with the cursor it borrows.
IterOf(r) ==
    [chain |-> iters[r].chain, unread |-> iters[r].unread,
     last_event_count |-> readers[r].last_event_count]

\* History of an iterator operation on a reader still reading in full: the
\* item it yielded; the reader lapses when events were passed over without
\* being yielded; a read with nothing left unread is a completed read.
HistAfterIter(h, item, skipped, unread) ==
    IF ~h.compliant THEN h
    ELSE IF skipped > 0 THEN Lapsed(h)
    ELSE [h EXCEPT !.yielded = @ \o item,
                   !.pending = IF unread = 0 THEN 0 ELSE @]

\* ManualEventReader::default(). History: a reader created after an advance
\* has not read since that advance (an advance of a queue nothing was ever
\* sent to changes nothing and is not counted).
NewReader(r) ==
    /\ Running
    /\ ~readers[r].exists
    /\ readers' = [readers EXCEPT ![r] =
                     [exists |-> TRUE,
                      last_event_count |-> DefaultReader.last_event_count]]
    /\ hist' = [hist EXCEPT ![r] =
                     [NoHist EXCEPT
                        !.created_at = events.event_count,
                        !.pending =
                            IF events.events_b.start_event_count > 0
                            THEN 1 ELSE 0]]
    /\ UNCHANGED <<events, signal, entities, nextEntity, iters, panicked,
                   log, removed>>
    /\ UNCHANGED lvars

\* ManualEventReader::read: EntityEventIterator::new
Read(r) ==
    LET res == IterNew(readers[r].last_event_count, events)
    IN  /\ Running
        /\ readers[r].exists /\ ~iters[r].live
        /\ panicked' = panicked
              \cup (IF res.assert_ok THEN {}
                    ELSE {"EntityEventIterator::new: debug_assert_eq"})
              \cup (IF res.sub_ok THEN {}
                    ELSE {"EntityEventIterator::new: subtract with overflow"})
        /\ readers' = [readers EXCEPT ![r].last_event_count =
                                            res.last_event_count]
        /\ iters' = [iters EXCEPT ![r] =
                        [live |-> TRUE, chain |-> res.chain,
                         unread |-> res.unread,
                         from |-> readers[r].last_event_count,
                         untouched |-> TRUE]]
        /\ hist' = [hist EXCEPT ![r] =
                      HistAfterIter(@, <<>>, 0, res.unread)]
        /\ UNCHANGED <<events, signal, entities, nextEntity, log, removed>>
        /\ UNCHANGED lvars

\* What an iterator operation leaves behind: the cursor, the iterator (gone
\* when the operation consumed it), the item yielded, the events skipped.
AfterIter(r, it, item, consumed, skipped, sub_ok) ==
    /\ readers' = [readers EXCEPT ![r].last_event_count = it.last_event_count]
    /\ iters' = [iters EXCEPT ![r] =
                    IF consumed THEN NoIter
                    ELSE [@ EXCEPT !.chain = it.chain, !.unread = it.unread,
                                   !.from = 0, !.untouched = FALSE]]
    /\ panicked' = IF sub_ok THEN panicked
                   ELSE panicked
                        \cup {"EntityEventIterator: subtract with overflow"}
    /\ hist' = [hist EXCEPT ![r] =
                  [HistAfterIter(@, item, skipped,
                                 IF consumed THEN 0 ELSE it.unread)
                      EXCEPT !.left = <<>>]]
    /\ UNCHANGED <<events, signal, entities, nextEntity, log, removed>>
    /\ UNCHANGED lvars

\* EntityEventIterator::next
IterateNext(r) ==
    LET res == IterNext(IterOf(r))
    IN  /\ Running /\ iters[r].live
        /\ AfterIter(r, res.it, res.item, FALSE, 0, res.sub_ok)

\* EntityEventIterator::nth
IterateNth(r, n) ==
    LET res == IterNth(IterOf(r), n)
    IN  /\ Running /\ iters[r].live
        /\ AfterIter(r, res.it, res.item, FALSE,
                     Min(n, Len(iters[r].chain)), res.sub_ok)

\* EntityEventIterator::count
IterateCount(r) ==
    LET res == IterCount(IterOf(r))
    IN  /\ Running /\ iters[r].live
        /\ AfterIter(r, res.it, <<>>, TRUE, Len(iters[r].chain), TRUE)

\* EntityEventIterator::last
IterateLast(r) ==
    LET res == IterLast(IterOf(r))
    IN  /\ Running /\ iters[r].live
        /\ AfterIter(r, res.it, res.item, TRUE,
                     Len(iters[r].chain) - Len(res.item), TRUE)

\* The iterator goes out of scope. History: what it had left.
DropIter(r) ==
    /\ Running /\ iters[r].live
    /\ iters' = [iters EXCEPT ![r] = NoIter]
    /\ hist' = [hist EXCEPT ![r].left = iters[r].chain]
    /\ UNCHANGED <<events, signal, entities, nextEntity, readers, panicked,
                   log, removed>>
    /\ UNCHANGED lvars

\* ----------------------------------------------------------- specification

\* The operations of reader r.
ReaderStep(r) ==
    \/ NewReader(r)
    \/ Read(r)
    \/ IterateNext(r)
    \/ \E n \in 0..MaxEvents : IterateNth(r, n)
    \/ IterateCount(r)
    \/ IterateLast(r)
    \/ DropIter(r)

\* Sends and advances.
QueueStepNoClear ==
    \/ SendEvent
    \/ \E k \in 0..MaxBatch : SendEventBatch(k)
    \/ SignalEventUpdate
    \/ RunEventUpdateSystems
    \/ Update

QueueStep ==
    \/ QueueStepNoClear
    \/ Drain
    \/ ClearEvents

\* Every queue operation, and one reader.
Next == QueueStep \/ ReaderStep("r1")

Spec == Init /\ [][Next]_vars

\* Sends, advances and one reader: no drain, no clear.
NextNoClear == QueueStepNoClear \/ ReaderStep("r1")

SpecNoClear == Init /\ [][NextNoClear]_vars

\* Sends, advances and several readers, named in the order of their
\* creation: no drain, no clear.
NextReaders ==
    \/ SendEvent
    \/ Update
    \/ \E r \in Readers :
          /\ r = "r2" => readers["r1"].exists
          /\ ReaderStep(r)

SpecReaders == Init /\ [][NextReaders]_vars

\* ----------------------------------------------------- history, in words

\* The (1-based) send number of a sent entity: the event with send number
\* k was pushed when event_count was k - 1.
SendNumber(e) == CHOOSE k \in 1..Len(log) : log[k].entity = e

\* next() called n times: the state left, the item of the n-th call, and
\* how many calls returned Some.
RECURSIVE NextTimes(_, _)
NextTimes(it, n) ==
    IF n = 0 THEN [it |-> it, item |-> <<>>, some |-> 0]
    ELSE LET first == IterNext(it)
             rest == NextTimes(first.it, n - 1)
         IN  [it |-> rest.it,
              item |-> IF n = 1 THEN first.item ELSE rest.item,
              some |-> Len(first.item) + rest.some]

\* next() called until it returns None (Iterator's provided count and
\* last): the state left, the last item returned, the number of items.
RECURSIVE Exhaust(_)
Exhaust(it) ==
    LET first == IterNext(it)
    IN  IF first.item = <<>> THEN [it |-> first.it, item |-> <<>>, n |-> 0]
        ELSE LET rest == Exhaust(first.it)
             IN  [it |-> rest.it,
                  item |-> IF rest.n = 0 THEN first.item ELSE rest.item,
                  n |-> rest.n + 1]

\* Reader r has just called read(): its iterator has not been advanced.
JustRead(r) == iters[r].live /\ iters[r].untouched

\* ------------------------------------------------------------------ claims

\* C1: with no drain or clear, a read() by a reader whose cursor is at or
\* before an event's send index yields that event, when the read comes
\* after the push and before the second update_drain that follows it.
C1_TwoGenerationVisibility ==
    \A r \in Readers :
        JustRead(r) =>
            \A k \in 1..Len(log) :
                (iters[r].from <= k - 1 /\ log[k].age < 2)
                    => log[k].entity \in Range(iters[r].chain)

\* A read from a cursor past the first event that yields an event already
\* moved to the older buffer, with another event already reclaimed.
C1_Witness ==
    \E r \in Readers :
        /\ JustRead(r) /\ iters[r].from >= 1
        /\ \E k \in 1..Len(log) :
              iters[r].from <= k - 1 /\ log[k].age = 1
        /\ \E k \in 1..Len(log) : log[k].age = 2

\* C2: with no drain or clear, update_drain returns each pushed entity
\* exactly once, in the second call after its push and in no other call;
\* until then the entity is in a buffer, afterwards it is in neither.
C2_ReclaimedExactlyOnce ==
    \A k \in 1..Len(log) :
        /\ log[k].age < 2 =>
              log[k].returned = 0 /\ log[k].entity \in Retained(events)
        /\ log[k].age = 2 =>
              log[k].returned = 1 /\ log[k].entity \notin Retained(events)

\* One event reclaimed, one in the older buffer, one in the newer.
C2_Witness ==
    /\ \E k \in 1..Len(log) : log[k].age = 2 /\ log[k].returned = 1
    /\ \E k \in 1..Len(log) : log[k].age = 1
    /\ \E k \in 1..Len(log) : log[k].age = 0

\* C3: a reader that reads with next() and completes a read between every
\* two consecutive update_drain calls is yielded the events in send order,
\* each once, none skipped: what it was yielded is the run of sent events
\* that ends at its cursor, that run starts no later than the first event
\* sent after its creation, and every later event is still in the queue
\* ahead of its cursor; whatever the other readers do.
C3_ExactlyOnceInOrder ==
    \A r \in Readers :
        (readers[r].exists /\ hist[r].compliant) =>
            LET y == hist[r].yielded
                c == readers[r].last_event_count
            IN  /\ Len(y) <= c
                /\ c <= Len(log)
                /\ y = [i \in 1..Len(y) |-> log[c - Len(y) + i].entity]
                /\ Len(y) > 0 => c - Len(y) <= hist[r].created_at
                /\ \A k \in (hist[r].created_at + 1)..Len(log) :
                      \/ log[k].entity \in Range(y)
                      \/ k > c /\ log[k].entity \in Retained(events)

\* Two readers created at different times, both still reading in full,
\* yielded different runs, after an event has been reclaimed.
C3_Witness ==
    /\ readers["r1"].exists /\ hist["r1"].compliant
    /\ readers["r2"].exists /\ hist["r2"].compliant
    /\ hist["r1"].created_at # hist["r2"].created_at
    /\ Len(hist["r1"].yielded) >= 2
    /\ Len(hist["r2"].yielded) >= 1
    /\ hist["r1"].yielded # hist["r2"].yielded
    /\ \E k \in 1..Len(log) : log[k].age = 2

\* C4: after every operation of EventEntities, events_a.start_event_count
\* + len(events_a) = events_b.start_event_count, and update_drain's debug
\* assertion has not failed.
C4_StartCountInvariant ==
    /\ events.events_a.start_event_count + Len(events.events_a.events)
         = events.events_b.start_event_count
    /\ "update_drain: debug_assert_eq" \notin panicked

\* Both buffers hold events after entities were removed and the older
\* buffer starts past 0.
C4_Witness ==
    /\ removed > 0
    /\ events.events_a.start_event_count > 0
    /\ Len(events.events_a.events) > 0
    /\ Len(events.events_b.events) > 0

\* len() is the sum of the two buffers and event_count is len() plus the
\* entities removed so far.
CountAccounts ==
    /\ QueueLen(events)
         = Len(events.events_a.events) + Len(events.events_b.events)
    /\ events.event_count = QueueLen(events) + removed

\* C5: event_count never decreases, len() = len(events_a) + len(events_b),
\* and event_count = len() + the number of entities removed from the
\* buffers by update_drain, drain or clear.
C5_CountAccounting ==
    /\ CountAccounts
    /\ [][/\ events'.event_count >= events.event_count
          /\ CountAccounts']_vars

\* Entities were removed, some by a drain or clear (removed but never
\* returned by update_drain), and the queue holds events again.
C5_Witness ==
    /\ removed >= 2
    /\ \E k \in 1..Len(log) :
          log[k].returned = 0 /\ log[k].entity \notin Retained(events)
    /\ QueueLen(events) >= 1

\* An iterator made by read() from cursor c, with the cursor read() leaves.
IterFrom(c) ==
    LET res == IterNew(c, events)
    IN  [chain |-> res.chain, unread |-> res.unread,
         last_event_count |-> res.last_event_count]

\* C6: in every queue state and for every cursor value, also one older than
\* the oldest retained event or larger than event_count,
\* read(queue).count() = ManualEventReader::len(queue), and the debug
\* assertion of EntityEventIterator::new holds.
C6_ReadCountMatchesLen ==
    /\ \A c \in 0..(events.event_count + 2) :
          /\ IterCount(IterFrom(c)).result = ReaderLen(c, events)
          /\ IterNew(c, events).assert_ok
    /\ "EntityEventIterator::new: debug_assert_eq" \notin panicked

\* A read from a cursor older than the oldest retained event, with events
\* in both buffers.
C6_Witness ==
    \E r \in Readers :
        /\ JustRead(r)
        /\ iters[r].from < OldestEventCount(events)
        /\ Len(events.events_a.events) > 0
        /\ Len(events.events_b.events) > 0
        /\ iters[r].unread = QueueLen(events)

\* C7: from any iterator state, nth(n), count() and last() return what the
\* corresponding next() calls return and leave the cursor (and, for nth,
\* the unread counter and the chain) as those calls leave them; nth(n) with
\* n >= unread, count() and last() leave the cursor at event_count.
C7_BulkSkipMatchesNext ==
    \A r \in Readers :
        iters[r].live =>
            LET it == IterOf(r)
                all == Exhaust(it)
            IN  /\ \A n \in 0..(MaxEvents + 1) :
                      LET bulk == IterNth(it, n)
                          step == NextTimes(it, n + 1)
                      IN  /\ bulk.item = step.item
                          /\ bulk.it = step.it
                          /\ bulk.sub_ok
                          /\ n >= it.unread =>
                                bulk.it.last_event_count = events.event_count
                /\ IterCount(it).result = all.n
                /\ IterCount(it).it.last_event_count
                      = all.it.last_event_count
                /\ IterLast(it).item = all.item
                /\ IterLast(it).it.last_event_count = all.it.last_event_count
                /\ all.it.last_event_count = events.event_count

\* An iterator that was advanced by a bulk skip (its reader passed over
\* events although no advance ever happened) and still has events unread.
C7_Witness ==
    \E r \in Readers :
        /\ iters[r].live /\ ~iters[r].untouched
        /\ ~hist[r].compliant
        /\ \A k \in 1..Len(log) : log[k].age = 0
        /\ iters[r].unread >= 1

\* C8: a read() by a reader whose cursor is older than the oldest retained
\* event fails no assertion or subtraction, sets the cursor to the oldest
\* retained index, yields all retained events, events_a's then events_b's,
\* and run to its end leaves the cursor at event_count; the events it
\* cannot yield are no longer in the queue.
C8_UnderflowClamped ==
    \A r \in Readers :
        (JustRead(r) /\ iters[r].from < OldestEventCount(events)) =>
            /\ panicked = {}
            /\ readers[r].last_event_count = OldestEventCount(events)
            /\ iters[r].chain
                 = events.events_a.events \o events.events_b.events
            /\ Exhaust(IterOf(r)).it.last_event_count = events.event_count
            /\ Exhaust(IterOf(r)).n = QueueLen(events)
            /\ \A k \in 1..Len(log) :
                  (k > iters[r].from
                     /\ log[k].entity \notin Range(iters[r].chain))
                    => log[k].entity \notin Retained(events)

\* A reader that had read before fell behind the retained history: its
\* read starts from a cursor past 0 and older than the oldest retained
\* event, and yields retained events.
C8_Witness ==
    \E r \in Readers :
        /\ JustRead(r)
        /\ 0 < iters[r].from
        /\ iters[r].from < OldestEventCount(events)
        /\ iters[r].unread >= 1

\* C9, as stated: every reader's cursor always lies in
\* [oldest_event_count(), event_count], so event_count - cursor <= len().
C9_Original ==
    \A r \in Readers :
        readers[r].exists =>
            /\ OldestEventCount(events) <= readers[r].last_event_count
            /\ readers[r].last_event_count <= events.event_count
            /\ events.event_count - readers[r].last_event_count
                 <= QueueLen(events)

\* C9, amended: every reader's cursor is always <= event_count; from a
\* read() for as long as its iterator lives the cursor lies in
\* [oldest_event_count(), event_count] and event_count - cursor <= len().
C9_CursorBound ==
    \A r \in Readers :
        readers[r].exists =>
            /\ readers[r].last_event_count <= events.event_count
            /\ iters[r].live =>
                  /\ OldestEventCount(events) <= readers[r].last_event_count
                  /\ events.event_count - readers[r].last_event_count
                       <= QueueLen(events)

\* An iterator in the middle of the retained events, after an advance moved
\* the oldest retained index past 0.
C9_Witness ==
    \E r \in Readers :
        /\ iters[r].live /\ ~iters[r].untouched
        /\ OldestEventCount(events) > 0
        /\ OldestEventCount(events) < readers[r].last_event_count
        /\ readers[r].last_event_count < events.event_count

\* C10, as stated: a reader is never yielded an event that was sent before
\* the reader was created.
C10_Original ==
    \A r \in Readers :
        \A i \in 1..Len(hist[r].yielded) :
            SendNumber(hist[r].yielded[i]) > hist[r].created_at

\* C10, amended: a read() yields exactly the events still in the queue
\* whose send index is at or after the reader's cursor, in send order; a
\* new reader's cursor is 0, so its first read also yields the retained
\* events sent before its creation, and only events already removed from
\* the queue are not yielded.
C10_YieldsRetainedFromCursor ==
    \A r \in Readers :
        JustRead(r) =>
            /\ Range(iters[r].chain)
                 = {log[k].entity : k \in {j \in 1..Len(log) :
                       j > iters[r].from
                       /\ log[j].entity \in Retained(events)}}
            /\ \A i, j \in 1..Len(iters[r].chain) :
                  i < j => SendNumber(iters[r].chain[i])
                             < SendNumber(iters[r].chain[j])

\* The first read of a reader created after events were sent: it starts at
\* cursor 0 and yields a retained event sent before the reader's creation,
\* while an older event is already gone.
C10_Witness ==
    \E r \in Readers :
        /\ JustRead(r) /\ iters[r].from = 0
        /\ hist[r].created_at >= 2
        /\ iters[r].chain # <<>>
        /\ SendNumber(iters[r].chain[1]) <= hist[r].created_at
        /\ log[1].entity \notin Retained(events)

\* The send index of the last event that drain() or clear() took out of the
\* queue (0 when there is none): update_drain counts what it returns, so an
\* event that is in neither buffer and was never returned was drained or
\* cleared, and so was every event sent before it.
DrainedUpTo ==
    LET gone == {k \in 1..Len(log) :
                    /\ log[k].entity \notin Retained(events)
                    /\ log[k].returned = 0}
    IN  IF gone = {} THEN 0 ELSE CHOOSE k \in gone : \A j \in gone : j <= k

\* What reader r was yielded of the events sent after the last drain/clear.
YieldedSinceDrain(r) ==
    SelectSeq(hist[r].yielded, LAMBDA e : SendNumber(e) > DrainedUpTo)

\* A queue as drain() and clear() leave it: for every cursor a read yields
\* nothing and counts nothing unread, and after pushes a read yields
\* exactly the pushed events, whether or not the reader read in between.
NoPhantoms(q) ==
    /\ q.events_a.events = <<>> /\ q.events_b.events = <<>>
    /\ q.events_a.start_event_count = q.event_count
    /\ q.events_b.start_event_count = q.event_count
    /\ \A c \in 0..q.event_count :
          LET it == IterNew(c, q)
          IN  /\ it.chain = <<>> /\ it.unread = 0 /\ ReaderLen(c, q) = 0
              /\ it.assert_ok /\ it.sub_ok
              /\ \A n \in 1..MaxBatch :
                    LET pushed == [i \in 1..n |-> nextEntity + i - 1]
                        after == Extend(q, pushed)
                    IN  /\ IterNew(c, after).chain = pushed
                        /\ IterNew(it.last_event_count, after).chain = pushed

\* C11: drain() and clear() leave both sequences empty with both start
\* counts equal to event_count, so a read with any cursor yields nothing
\* and the reads after it yield exactly the events pushed afterwards: a
\* reader reading in full was yielded, of the events sent after the last
\* drain/clear, exactly the run that ends at its cursor, in send order,
\* each once, and every later one is still in the queue.
C11_DrainLeavesNoPhantoms ==
    /\ [](\A r \in Readers :
             (readers[r].exists /\ hist[r].compliant) =>
                 LET y == YieldedSinceDrain(r)
                     c == readers[r].last_event_count
                     since == IF DrainedUpTo > hist[r].created_at
                              THEN DrainedUpTo ELSE hist[r].created_at
                 IN  /\ Len(y) > 0 =>
                           /\ DrainedUpTo <= c - Len(y)
                           /\ c - Len(y) <= since
                           /\ y = [i \in 1..Len(y) |->
                                       log[c - Len(y) + i].entity]
                     /\ \A k \in (since + 1)..Len(log) :
                           \/ log[k].entity \in Range(y)
                           \/ k > c /\ log[k].entity \in Retained(events))
    /\ [][(Drain \/ ClearEvents) => NoPhantoms(events')]_vars

\* A reader that was yielded an event, then saw the queue drained of a
\* later event it had not read, and was yielded an event pushed after that.
C11_Witness ==
    \E r \in Readers :
        /\ readers[r].exists /\ hist[r].compliant
        /\ DrainedUpTo >= 2
        /\ Len(YieldedSinceDrain(r)) >= 1
        /\ Len(hist[r].yielded) > Len(YieldedSinceDrain(r))
        /\ log[DrainedUpTo].entity \notin Range(hist[r].yielded)

\* ======================================================= listener engine
\* crates/event_listener (propagate_events, run_callbacks), and the older
\* copy of the same engine in src/event_listener.rs.

\* ------------------------------------------------------------ the World

\* The entities of the hierarchy, each with one entity-scoped callback
\* (EntityWorldMut::add_callback: a child entity holding the callback), and
\* one global callback (World::add_callback: no Parent).
Owners == 1..NumOwners

ScopedCallback(o) == NumOwners + o

GlobalCallback == 2 * NumOwners + 1

CallbackEntities == {ScopedCallback(o) : o \in Owners} \cup {GlobalCallback}

\* The first entity spawned after the hierarchy and the callbacks.
FirstEvent == 2 * NumOwners + 2

\* The payload component types events are sent with.
Payloads == {"TestEvent", "Other"}

\* An entity without any of the components modelled.
NoComponents == [kind |-> "none", target |-> 0, propagated |-> 0]

NoCallback == [ident |-> [kind |-> "none", with_target |-> FALSE],
               system |-> "None"]

\* The World after setup, as test_propagate_events builds it: a chain in
\* which every owner but the last is the child of the next one, a scoped
\* callback for TestEvent on every owner, and a global callback for
\* TestEvent; no event.
SetupWorld ==
    [parent |-> [e \in Owners \cup CallbackEntities |->
                    IF e \in Owners
                    THEN IF e < NumOwners THEN e + 1 ELSE 0
                    ELSE IF e = GlobalCallback THEN 0
                    ELSE e - NumOwners],
     payload |-> <<>>,
     callbacks |-> [cb \in CallbackEntities |->
                      [ident |-> [kind |-> "TestEvent",
                                  with_target |-> cb # GlobalCallback],
                       system |-> "Pending"]],
     input |-> <<>>]

\* World::despawn(e): the entity's components go with it; the Parent
\* components that name it stay.
Despawned(w, e) ==
    [w EXCEPT !.parent = [x \in DOMAIN w.parent |->
                             IF x = e THEN 0 ELSE w.parent[x]],
              !.payload = [x \in DOMAIN w.payload |->
                             IF x = e THEN NoComponents ELSE w.payload[x]],
              !.callbacks = [x \in DOMAIN w.callbacks |->
                             IF x = e THEN NoCallback ELSE w.callbacks[x]]]

\* Option<&Parent> of an entity of any kind (0: no Parent component).
ParentOf(w, e) == IF e \in DOMAIN w.parent THEN w.parent[e] ELSE 0

\* Listenable::entity_contains for T and for (Target, T).
IdentAccepts(ident, components) ==
    /\ components.kind = ident.kind
    /\ ident.with_target => components.target # 0

\* --------------------------------------------------------- EventType

\* The EventType run_callbacks builds for a queued entity: Propagated when
\* it carries PropagatedEvent, Event otherwise (propagated = 0).
EventTypeOf(w, e) ==
    IF w.payload[e].propagated # 0
    THEN [event |-> w.payload[e].propagated, propagated |-> e]
    ELSE [event |-> e, propagated |-> 0]

\* EventType::is_propagated
IsPropagated(event) == event.propagated # 0

\* EventType::id
EventId(event) == event.event

\* Mutant of EntitiesContains: the event is taken to be alive.
EntitiesContainsAlways(event, alive) == TRUE

\* EventType::entities_contains
EntitiesContains(event, alive) ==
    IF IsPropagated(event)
    THEN event.propagated \in alive /\ event.event \in alive
    ELSE event.event \in alive

\* Mutant of SwapTarget: the Targets are left as they are.
SwapTargetNever(event, w, alive) == w

\* EventType::swap_target: the Target values of the derivative and of the
\* root event change places when both entities exist and carry a Target.
SwapTarget(event, w, alive) ==
    IF ~IsPropagated(event) THEN w
    ELSE IF ~EntitiesContains(event, alive) THEN w
    ELSE IF w.payload[event.propagated].target = 0 THEN w
    ELSE IF w.payload[event.event].target = 0 THEN w
    ELSE [w EXCEPT
            !.payload[event.propagated].target = w.payload[event.event].target,
            !.payload[event.event].target = w.payload[event.propagated].target]

\* ---------------------------------------------------- propagate_events

\* Mutant of Walk: the ancestors are listed farthest first.
RECURSIVE WalkFarthestFirst(_, _, _)
WalkFarthestFirst(target, w, alive) ==
    IF target \in alive /\ ParentOf(w, target) # 0
    THEN WalkFarthestFirst(ParentOf(w, target), w, alive)
             \o <<ParentOf(w, target)>>
    ELSE <<>>

\* Mutant of Walk: the walk stops at the parent.
WalkParentOnly(target, w, alive) ==
    IF target \in alive /\ ParentOf(w, target) # 0
    THEN <<ParentOf(w, target)>>
    ELSE <<>>

\* The inner loop of propagate_events: `while let Ok(parent) =
\* query.get(target)` follows Parent from the target while the entity at
\* hand exists and has one; the entities it reaches, in the order reached.
RECURSIVE Walk(_, _, _)
Walk(target, w, alive) ==
    IF target \in alive /\ ParentOf(w, target) # 0
    THEN <<ParentOf(w, target)>> \o Walk(ParentOf(w, target), w, alive)
    ELSE <<>>

\* The bundles propagate_events sends for the events its reader yields
\* (chain): QueryEventReader<(Entity, &Target)> passes over the entities
\* that are gone or carry no Target; for the others one
\* (Target(ancestor), PropagatedEvent(event)) per entity the walk reaches.
RECURSIVE DerivativesOf(_, _, _)
DerivativesOf(chain, w, alive) ==
    IF chain = <<>> THEN <<>>
    ELSE LET event == Head(chain)
             walk == IF event \in alive /\ w.payload[event].target # 0
                     THEN Walk(w.payload[event].target, w, alive)
                     ELSE <<>>
         IN  [i \in 1..Len(walk) |->
                 [kind |-> "none", target |-> walk[i],
                  propagated |-> event]]
             \o DerivativesOf(Tail(chain), w, alive)

\* The components of the World once the bundles are inserted on the
\* entities first, first + 1, ...
WithPayloads(w, first, bundles) ==
    [w EXCEPT !.payload =
        [e \in DOMAIN w.payload \cup (first..(first + Len(bundles) - 1)) |->
            IF e \in DOMAIN w.payload THEN w.payload[e]
            ELSE bundles[e - first + 1]]]

\* History of a send: the entity and what it carried.
Sent(first, bundles) ==
    [i \in 1..Len(bundles) |->
        [entity |-> first + i - 1, kind |-> bundles[i].kind,
         target |-> bundles[i].target, propagated |-> bundles[i].propagated]]

\* -------------------------------------------------------- run_callbacks

\* Mutant of Selects: the Parent of the callback entity is not looked at.
SelectsAnyParent(engine, w, alive, callback_entity, event, target) ==
    /\ IdentAccepts(w.callbacks[callback_entity].ident,
                    w.payload[EventId(event)])
    /\ EntitiesContains(event, alive)

\* Mutant of Selects: nothing is selected once an entity of the hierarchy
\* is gone.
SelectsWholeChain(engine, w, alive, callback_entity, event, target) ==
    /\ Owners \subseteq alive
    /\ \/ target = 0
       \/ ParentOf(w, callback_entity) = 0
       \/ ParentOf(w, callback_entity) = target
    /\ IdentAccepts(w.callbacks[callback_entity].ident,
                    w.payload[EventId(event)])
    /\ EntitiesContains(event, alive)

\* Mutant of Selects: no callback is selected for a derivative.
SelectsRootOnly(engine, w, alive, callback_entity, event, target) ==
    /\ ~IsPropagated(event)
    /\ \/ target = 0
       \/ ParentOf(w, callback_entity) = 0
       \/ ParentOf(w, callback_entity) = target
    /\ IdentAccepts(w.callbacks[callback_entity].ident,
                    w.payload[EventId(event)])
    /\ engine = "src" => callback_entity \in alive
    /\ EntitiesContains(event, alive)
    /\ engine = "src" =>
          \/ ParentOf(w, callback_entity) = 0
          \/ ParentOf(w, callback_entity) \in alive

\* The condition under which run_callbacks queues a callback entity for an
\* event: target.and_then(|t| parent.map(|p| p.get() == t))
\* .unwrap_or(true), the CallbackIdent applied to the entity EventType::id
\* names, and the event's entities alive; the copy in src/event_listener.rs
\* also wants the callback entity and its Parent alive.
Selects(engine, w, alive, callback_entity, event, target) ==
    /\ \/ target = 0
       \/ ParentOf(w, callback_entity) = 0
       \/ ParentOf(w, callback_entity) = target
    /\ IdentAccepts(w.callbacks[callback_entity].ident,
                    w.payload[EventId(event)])
    /\ engine = "src" => callback_entity \in alive
    /\ EntitiesContains(event, alive)
    /\ engine = "src" =>
          \/ ParentOf(w, callback_entity) = 0
          \/ ParentOf(w, callback_entity) \in alive

\* What run_callbacks does with the entity its reader yields: nothing when
\* the entity, or the event its PropagatedEvent names, is gone; otherwise
\* the queued group: the EventType, the Target read from the entity and
\* the callback entities (Query<(Entity, &CallbackIdent, Option<&Parent>)>)
\* selected.
Selection(engine, w, alive, entity) ==
    IF entity \notin alive THEN <<>>
    ELSE LET target == w.payload[entity].target
             event == EventTypeOf(w, entity)
         IN  IF EventId(event) \notin alive THEN <<>>
             ELSE <<[event |-> event, target |-> target,
                     callbacks |->
                        {cb \in CallbackEntities \cap alive :
                            Selects(engine, w, alive, cb, event, target)}]>>

\* Mutant of TakeCallback: the record is read and left on the entity.
TakeCallbackLeavesRecord(w, callback_entity, alive) ==
    IF callback_entity \in alive
       /\ w.callbacks[callback_entity].system # "None"
    THEN [world |-> w, system |-> w.callbacks[callback_entity].system]
    ELSE [world |-> w, system |-> "None"]

\* world.get_entity_mut(callback_entity).and_then(|mut c|
\* c.take::<CallbackSystemInner>()): the record leaves the entity.
TakeCallback(w, callback_entity, alive) ==
    IF callback_entity \in alive
       /\ w.callbacks[callback_entity].system # "None"
    THEN [world |-> [w EXCEPT !.callbacks[callback_entity].system = "None"],
          system |-> w.callbacks[callback_entity].system]
    ELSE [world |-> w, system |-> "None"]

\* Mutant of RunSystem: the record is left as it was found.
RunSystemKeepsState(system) == system

\* CallbackSystemInner::run: a Pending system is initialized and becomes
\* Ready, a Ready one stays Ready.
RunSystem(system) == "Ready"

\* The count of the calls of system.initialize (register_boxed_system in
\* src/event_listener.rs) per callback entity, after a run that found the
\* record in state system: only the Pending branch initializes.
Initialized(counts, callback_entity, system) ==
    IF system # "Pending" THEN counts
    ELSE [cb \in DOMAIN counts \cup {callback_entity} |->
             IF cb = callback_entity
             THEN (IF cb \in DOMAIN counts THEN counts[cb] ELSE 0) + 1
             ELSE counts[cb]]

\* Mutant of InsertCallback: the record is dropped after the run.
InsertCallbackNever(w, callback_entity, system, alive) == w

\* if let Some(mut e) = world.get_entity_mut(callback_entity)
\* { e.insert(callback) }
InsertCallback(w, callback_entity, system, alive) ==
    IF callback_entity \in alive
    THEN [w EXCEPT !.callbacks[callback_entity].system = system]
    ELSE w

\* What a callback system may do to the World while it runs, as far as the
\* engine is concerned: nothing, despawn the event EventType::id names,
\* despawn the derivative it is run for, despawn its own callback entity,
\* or panic.
Effects ==
    {"none", "despawn_event", "despawn_propagated", "despawn_self", "panic"}

\* EventType::PLACEHOLDER, the ListenerInput src/event_listener.rs inserts
\* before its loop.
Placeholder == [event |-> 0, propagated |-> 0]

\* The listener systems before their first run: Local<ManualEventReader>
\* and Local<EventEntities> at their defaults.
NewListener(engine) ==
    [engine |-> engine, pc |-> "idle", passes |-> 0,
     propagate_reader |-> DefaultReader.last_event_count,
     reader |-> DefaultReader.last_event_count,
     events |-> DefaultEventEntities,
     chain |-> <<>>, unread |-> 0,
     queue |-> <<>>, running |-> <<>>, selected |-> <<>>]

\* The World of the listener engine after setup, for either copy of the
\* engine; nothing sent yet.
InitListeners ==
    /\ events = DefaultEventEntities
    /\ signal = FALSE
    /\ entities = Owners \cup CallbackEntities
    /\ nextEntity = FirstEvent
    /\ readers = [r \in Readers |-> NoReader]
    /\ iters = [r \in Readers |-> NoIter]
    /\ panicked = {}
    /\ log = <<>>
    /\ removed = 0
    /\ hist = [r \in Readers |-> NoHist]
    /\ world = SetupWorld
    /\ \E engine \in {"crate", "src"} : listener = NewListener(engine)
    /\ journal = NoJournal
    /\ damage = NoDamage
    /\ ungated = NoUngated

\* The entities despawned so far.
Despawns == nextEntity - 1 - Cardinality(entities)

\* The root events sent so far.
Roots == {i \in 1..Len(journal.sent) : journal.sent[i].propagated = 0}

\* send_event(world, (payload, Target(t))), or send_event(world, payload)
\* for t = 0, between two runs of the listener schedule.
SendEventTo(kind, t) ==
    LET bundle == <<[kind |-> kind, target |-> t, propagated |-> 0]>>
    IN  /\ Running
        /\ listener.pc = "idle"
        /\ Cardinality(Roots) < MaxRoots
        /\ events' = Push(events, nextEntity)
        /\ entities' = entities \cup {nextEntity}
        /\ nextEntity' = nextEntity + 1
        /\ world' = WithPayloads(world, nextEntity, bundle)
        /\ journal' = [journal EXCEPT !.sent = @ \o Sent(nextEntity, bundle)]
        /\ UNCHANGED <<listener, panicked>>
        /\ UNCHANGED <<qvars, damage>>

\* World::despawn of an entity of the hierarchy, between two runs of the
\* listener schedule: its children keep their Parent.
DespawnOwner(o) ==
    /\ Running
    /\ listener.pc = "idle"
    /\ Despawns < MaxDespawns
    /\ o \in entities
    /\ entities' = entities \ {o}
    /\ world' = Despawned(world, o)
    /\ UNCHANGED <<events, nextEntity, listener, journal, panicked>>
    /\ UNCHANGED <<qvars, damage>>

\* propagate_events, run because the queue is not empty, with its commands
\* applied: every derivative is spawned, pushed and given its bundle. Its
\* reader ends at event_count.
PropagateEvents ==
    LET it == IterNew(listener.propagate_reader, events)
        bundles == DerivativesOf(it.chain, world, entities)
        ids == [i \in 1..Len(bundles) |-> nextEntity + i - 1]
    IN  /\ Running
        /\ listener.pc = "idle"
        /\ listener.passes < MaxPasses
        /\ EventsNotEmpty(events)
        /\ events' = Extend(events, ids)
        /\ entities' = entities \cup Range(ids)
        /\ nextEntity' = nextEntity + Len(ids)
        /\ world' = WithPayloads(world, nextEntity, bundles)
        /\ listener' = [listener EXCEPT
                          !.pc = "callbacks",
                          !.passes = @ + 1,
                          !.propagate_reader =
                              it.last_event_count + Len(it.chain)]
        /\ journal' = [journal EXCEPT
                         !.sent = @ \o Sent(nextEntity, bundles),
                         !.ran = <<>>]
        /\ panicked' = panicked
              \cup (IF it.assert_ok /\ it.sub_ok THEN {}
                    ELSE {"propagate_events: EntityEventIterator::new"})
        /\ UNCHANGED <<qvars, damage>>

\* run_callbacks, up to its loop. crates/event_listener swaps the
\* EventEntities resource with its Local and reads the Local; the copy in
\* src/event_listener.rs reads the resource it holds in resource_scope and
\* inserts the placeholder ListenerInput.
RunCallbacksBegin ==
    LET it == IterNew(listener.reader, events)
    IN  /\ Running
        /\ listener.pc = "callbacks"
        /\ events' = IF listener.engine = "crate" THEN listener.events
                     ELSE events
        /\ world' = IF listener.engine = "crate" THEN world
                    ELSE [world EXCEPT !.input = <<Placeholder>>]
        /\ listener' = [listener EXCEPT
                          !.pc = "read",
                          !.events = IF listener.engine = "crate"
                                     THEN events ELSE @,
                          !.reader = it.last_event_count,
                          !.chain = it.chain,
                          !.unread = it.unread]
        /\ panicked' = panicked
              \cup (IF it.assert_ok /\ it.sub_ok THEN {}
                    ELSE {"run_callbacks: EntityEventIterator::new"})
        /\ UNCHANGED <<entities, nextEntity, journal>>
        /\ UNCHANGED <<qvars, damage>>

\* One turn of the loop of run_callbacks up to queue.apply: the reader
\* yields an entity and the closures for it are queued. crates/
\* event_listener applies the queue next; src/event_listener.rs reads on
\* and applies the queue after the last event.
ReadEvent ==
    LET res == IterNext([chain |-> listener.chain,
                         unread |-> listener.unread,
                         last_event_count |-> listener.reader])
        selected == Selection(listener.engine, world, entities, res.item[1])
        groups == IF selected # <<>> /\ selected[1].callbacks # {}
                  THEN <<[event |-> selected[1].event,
                          target |-> selected[1].target,
                          callbacks |-> selected[1].callbacks,
                          pending |-> selected[1].callbacks]>>
                  ELSE <<>>
        queue == listener.queue \o groups
    IN  /\ Running
        /\ listener.pc = "read"
        /\ listener.chain # <<>>
        /\ listener' = [listener EXCEPT
                          !.reader = res.it.last_event_count,
                          !.chain = res.it.chain,
                          !.unread = res.it.unread,
                          !.queue = queue,
                          !.selected = <<[entity |-> res.item[1],
                                          group |-> selected]>>,
                          !.pc = IF listener.engine = "crate"
                                 THEN IF groups # <<>> THEN "apply"
                                      ELSE "read"
                                 ELSE IF res.it.chain = <<>> /\ queue # <<>>
                                      THEN "apply" ELSE "read"]
        /\ UNCHANGED <<events, entities, nextEntity, world, journal,
                       panicked>>
        /\ UNCHANGED <<qvars, damage>>

\* Mutant of Settled: the ListenerInput is left in the World when the
\* closures queued for an event are done.
SettledKeepsInput(l, w) ==
    IF Head(l.queue).pending # {}
    THEN [listener |-> [l EXCEPT !.pc = "apply", !.running = <<>>],
          world |-> w]
    ELSE [listener |-> [l EXCEPT
                          !.queue = Tail(l.queue),
                          !.running = <<>>,
                          !.pc = IF l.engine = "crate" \/ Len(l.queue) = 1
                                 THEN "read" ELSE "apply"],
          world |-> w]

\* Where the engine stands once a queued closure has returned: with
\* closures left for the event, the next one; otherwise, in
\* crates/event_listener, queue.apply returns, ListenerInput is removed and
\* the loop reads on; in src/event_listener.rs the closures of the next
\* event follow.
Settled(l, w) ==
    IF Head(l.queue).pending # {}
    THEN [listener |-> [l EXCEPT !.pc = "apply", !.running = <<>>],
          world |-> w]
    ELSE [listener |-> [l EXCEPT
                          !.queue = Tail(l.queue),
                          !.running = <<>>,
                          !.pc = IF l.engine = "crate" \/ Len(l.queue) = 1
                                 THEN "read" ELSE "apply"],
          world |-> IF l.engine = "crate"
                    THEN [w EXCEPT !.input = <<>>] ELSE w]

\* A queued closure, up to the call of the callback: nothing when the
\* event is gone; otherwise ListenerInput is set, the callback record is
\* taken (the closure returns when there is none) and the Targets are
\* swapped. The closures of one event run in the order of the query, which
\* is any order.
DeferredBegin(callback_entity) ==
    LET group == Head(listener.queue)
        event == group.event
        live == EntitiesContains(event, entities)
        input == IF live THEN [world EXCEPT !.input = <<event>>] ELSE world
        taken == TakeCallback(input, callback_entity, entities)
        started == live /\ taken.system # "None"
        popped == [listener EXCEPT
                     !.queue[1].pending = @ \ {callback_entity},
                     !.selected = <<>>]
        settled == Settled(popped, input)
    IN  /\ Running
        /\ listener.pc = "apply"
        /\ callback_entity \in group.pending
        /\ IF started
           THEN /\ world' = SwapTarget(event, taken.world, entities)
                /\ listener' = [popped EXCEPT
                       !.pc = "run",
                       !.running = <<[callback_entity |-> callback_entity,
                                      event |-> event,
                                      target |-> group.target,
                                      system |-> taken.system]>>]
           ELSE /\ world' = settled.world
                /\ listener' = settled.listener
        /\ UNCHANGED <<events, entities, nextEntity, journal, panicked>>
        /\ UNCHANGED <<qvars, damage>>

\* The entity a callback's effect despawns (0: none); despawn_ancestor is
\* the despawn of the Parent of the entity the callback is run for.
DespawnedBy(effect, running) ==
    CASE effect = "despawn_event" -> EventId(running.event)
      [] effect = "despawn_propagated" -> running.event.propagated
      [] effect = "despawn_self" -> running.callback_entity
      [] effect = "despawn_ancestor" -> ParentOf(world, running.target)
      [] OTHER -> 0

\* The queued entity an EventType was built for.
QueuedEntity(event) ==
    IF IsPropagated(event) THEN event.propagated ELSE EventId(event)

\* History of a callback invocation: the callback entity and its Parent,
\* the Target the event EventType::id names carried during the run,
\* whether that event and the derivative existed when the callback was
\* called, and what the callback did.
Invocation(effect) ==
    LET running == Head(listener.running)
    IN  [callback_entity |-> running.callback_entity,
         parent |-> ParentOf(world, running.callback_entity),
         target |-> world.payload[EventId(running.event)].target,
         live |-> /\ EventId(running.event) \in entities
                  /\ QueuedEntity(running.event) \in entities,
         effect |-> effect]

\* The history with one more invocation: the invocations are grouped by
\* the queued entity they were made for, the groups in the order in which
\* the engine took the entities up.
Ran(ran, event, invocation) ==
    IF ran # <<>> /\ ran[Len(ran)].event = event
    THEN [ran EXCEPT ![Len(ran)].invocations = @ \cup {invocation}]
    ELSE Append(ran, [event |-> event, invocations |-> {invocation}])

\* The history of the calls of callback.run over all passes: for every
\* pair of a callback entity and a queued event entity, the passes in
\* which the callback was called for the entity.
Called(calls, callback_entity, event, pass) ==
    LET c == <<callback_entity, QueuedEntity(event)>>
    IN  [d \in DOMAIN calls \cup {c} |->
            IF d = c
            THEN (IF d \in DOMAIN calls THEN calls[d] ELSE <<>>) \o <<pass>>
            ELSE calls[d]]

\* Mutant of Unwind: the panic of the callback is caught and dropped.
UnwindCaught(panics) == panics

\* What becomes of a panic of callback.run: crates/event_listener catches
\* it and panics again from unwrap_or_else with the names of the callback,
\* the event and the target; src/event_listener.rs does not catch it. In
\* both the panic leaves run_callbacks and the schedule that runs it.
Unwind(panics) ==
    panics \cup {"run_callbacks: panic in callback system"}

\* Mutant of SendFromCallback: the event a callback sends is pushed on
\* the queue run_callbacks is reading.
SendFromCallbackSeen(l, event) ==
    [l EXCEPT !.chain = Append(@, event), !.unread = @ + 1]

\* What the loop of run_callbacks sees of an event pushed by a callback's
\* Commands::send_event: nothing. In crates/event_listener the event goes
\* to the EventEntities that was swapped into the resource, not to the one
\* being read.
SendFromCallback(l, event) == l

\* The callback entities a callback's effect spawns: add_callback spawns
\* the callback entity without Parent.
SpawnedBy(effect) ==
    IF effect = "add_callback" THEN {GlobalCallback} ELSE {}

\* Mutant of Registered: a callback entity spawned by a callback joins the
\* closures queued for the event being dispatched.
RegisteredQueued(l, spawned) ==
    [l EXCEPT !.queue[1].pending = @ \cup spawned]

\* What the closures already queued see of a callback entity spawned by a
\* running callback: nothing; the query of run_callbacks was iterated
\* before queue.apply.
Registered(l, spawned) == l

\* The rest of a queued closure: the callback runs with its own commands
\* applied; then the Targets are swapped back and the record is inserted
\* again if the callback entity still exists. A panic of the callback
\* leaves run_callbacks as a panic (crates/event_listener catches it and
\* panics with the names of the callback, the event and the target). A
\* callback that sends an event has it spawned and pushed on the
\* EventEntities resource; in src/event_listener.rs, which runs inside
\* resource_scope, there is no such resource and resource_mut panics.
CallbackRun(effect) ==
    LET running == Head(listener.running)
        gone == DespawnedBy(effect, running)
        spawned == SpawnedBy(effect)
        alive == (entities \ {gone}) \cup spawned
        ran == IF gone = 0 THEN world ELSE Despawned(world, gone)
        restored == SwapTarget(running.event, ran, alive)
        inserted == InsertCallback(restored, running.callback_entity,
                                   RunSystem(running.system), alive)
        settled == Settled(Registered(listener, spawned), inserted)
    IN  /\ Running
        /\ listener.pc = "run"
        /\ spawned \cap entities = {}
        /\ effect = "despawn_propagated" => IsPropagated(running.event)
        /\ gone # 0 => Despawns < MaxDespawns
        /\ effect = "despawn_ancestor" => gone \in entities
        /\ effect = "send_event" =>
              Len(journal.by_callback) < MaxCallbackSends
        /\ IF effect = "panic"
              \/ (effect = "send_event" /\ listener.engine = "src")
           THEN /\ panicked' = Unwind(panicked)
                /\ journal' = [journal EXCEPT
                      !.ran = Ran(@, running.event, Invocation(effect)),
                      !.calls = Called(@, running.callback_entity,
                                       running.event, listener.passes),
                      !.initialized = Initialized(@, running.callback_entity,
                                                  running.system)]
                /\ UNCHANGED <<events, nextEntity, entities, world, listener>>
           ELSE IF effect = "send_event"
           THEN \E t \in Owners :
                  LET bundle == <<[kind |-> "TestEvent", target |-> t,
                                   propagated |-> 0]>>
                  IN  /\ events' = Push(events, nextEntity)
                      /\ entities' = alive \cup {nextEntity}
                      /\ nextEntity' = nextEntity + 1
                      /\ world' = WithPayloads(settled.world, nextEntity,
                                               bundle)
                      /\ listener' = SendFromCallback(settled.listener,
                                                      nextEntity)
                      /\ journal' = [journal EXCEPT
                            !.ran = Ran(@, running.event, Invocation(effect)),
                            !.calls = Called(@, running.callback_entity,
                                             running.event, listener.passes),
                            !.initialized =
                                Initialized(@, running.callback_entity,
                                            running.system),
                            !.sent = @ \o Sent(nextEntity, bundle),
                            !.by_callback =
                                Append(@, [entity |-> nextEntity,
                                           pass |-> listener.passes])]
                      /\ UNCHANGED panicked
           ELSE /\ entities' = alive
                /\ world' = settled.world
                /\ listener' = settled.listener
                /\ journal' = [journal EXCEPT
                      !.ran = Ran(@, running.event, Invocation(effect)),
                      !.calls = Called(@, running.callback_entity,
                                       running.event, listener.passes),
                      !.initialized = Initialized(@, running.callback_entity,
                                                  running.system)]
                /\ UNCHANGED <<events, nextEntity, panicked>>
        /\ UNCHANGED <<qvars, damage>>

\* run_callbacks after its loop. crates/event_listener moves the events
\* sent meanwhile behind the ones it read and swaps the queue back into
\* the resource; src/event_listener.rs removes ListenerInput.
RunCallbacksEnd ==
    LET new_events == DrainAll(events)
    IN  /\ Running
        /\ listener.pc = "read"
        /\ listener.chain = <<>>
        /\ listener.queue = <<>>
        /\ events' = IF listener.engine = "crate"
                     THEN Extend(listener.events, new_events.drained)
                     ELSE events
        /\ world' = IF listener.engine = "crate" THEN world
                    ELSE [world EXCEPT !.input = <<>>]
        /\ listener' = [listener EXCEPT
                          !.pc = "idle",
                          !.selected = <<>>,
                          !.events = IF listener.engine = "crate"
                                     THEN new_events.queue ELSE @]
        /\ UNCHANGED <<entities, nextEntity, journal, panicked>>
        /\ UNCHANGED <<qvars, damage>>

\* The application (sends, despawns) and the listener schedule:
\* (propagate_events, run_callbacks).chain().run_if(any_events).
NextListeners ==
    \/ \E kind \in Payloads : \E t \in Owners \cup {0} : SendEventTo(kind, t)
    \/ \E o \in Owners : DespawnOwner(o)
    \/ PropagateEvents
    \/ RunCallbacksBegin
    \/ ReadEvent
    \/ \E cb \in CallbackEntities : DeferredBegin(cb)
    \/ \E effect \in Effects : CallbackRun(effect)
    \/ RunCallbacksEnd

SpecListeners == InitListeners /\ [][NextListeners]_vars

\* ------------------------------------------------- history, in words

\* The queued entities of the family of root event r (r and its
\* derivatives) sent before entity e, as the journal has them.
EarlierInFamily(r, e) ==
    {k \in 1..Len(journal.sent) :
        /\ journal.sent[k].entity < e
        /\ journal.sent[k].entity = r \/ journal.sent[k].propagated = r}

\* The callback entities the engine is to run for a queued entity with
\* Target t of a TestEvent: those that still exist and are global or
\* children of t (the copy in src/event_listener.rs passes over a child of
\* a despawned t).
Due(t) ==
    {cb \in CallbackEntities \cap entities :
        /\ ParentOf(world, cb) \in {0, t}
        /\ (listener.engine = "src" /\ ParentOf(world, cb) # 0)
               => ParentOf(world, cb) \in entities}

\* The callback entities invoked in the current pass for queued entity e.
InvokedFor(e) ==
    UNION {{inv.callback_entity : inv \in journal.ran[j].invocations} :
              j \in {i \in 1..Len(journal.ran) :
                        QueuedEntity(journal.ran[i].event) = e}}

\* C12: a callback is only ever invoked while the root event (and the
\* derivative it is dispatched for) exists, so once a callback has
\* despawned the root event no callback is invoked in that pass for it or
\* for its derivatives; and when a callback despawns the root event, the
\* callbacks due for the entities of the family that were queued earlier
\* (the root for the target, then the derivatives for the nearer
\* ancestors) have all been invoked.
C12_CancelledByDespawn ==
    \A i \in 1..Len(journal.ran) :
        LET group == journal.ran[i]
            r == EventId(group.event)
        IN  /\ \A inv \in group.invocations : inv.live
            /\ (\E inv \in group.invocations : inv.effect = "despawn_event")
                  => /\ \A j \in (i + 1)..Len(journal.ran) :
                            EventId(journal.ran[j].event) # r
                     /\ \A k \in EarlierInFamily(r, QueuedEntity(group.event)) :
                            (journal.sent[k].entity = r
                                \/ journal.sent[k].entity \in entities)
                            => Due(journal.sent[k].target)
                                  \subseteq InvokedFor(journal.sent[k].entity)

\* The pass of test_propagate_events has ended: the event went to the
\* first owner, a callback of its parent despawned it, the callbacks of the
\* first owner and of the parent were invoked, none for the derivative
\* that was queued for the grandparent.
C12_Witness ==
    /\ listener.pc = "idle"
    /\ Len(journal.sent) = 3
    /\ journal.sent[1].target = 1
    /\ Len(journal.ran) = 2
    /\ ScopedCallback(1) \in InvokedFor(journal.sent[1].entity)
    /\ ScopedCallback(2) \in InvokedFor(journal.sent[2].entity)
    /\ \E inv \in journal.ran[2].invocations : inv.effect = "despawn_event"
    /\ InvokedFor(journal.sent[3].entity) = {}
    /\ journal.sent[3].entity \in entities

\* Whether p is reached from e by one or more Parent steps in the
\* hierarchy as it was set up.
RECURSIVE ProperAncestor(_, _)
ProperAncestor(p, e) ==
    LET q == ParentOf(SetupWorld, e)
    IN  q # 0 /\ (q = p \/ ProperAncestor(p, q))

\* The Target a root event was sent with (0: none, or not a root event).
SentTarget(r) ==
    IF \E k \in 1..Len(journal.sent) : journal.sent[k].entity = r
    THEN (CHOOSE rec \in Range(journal.sent) : rec.entity = r).target
    ELSE 0

\* C13: bubble order. Within a pass the scoped callbacks invoked for one
\* root event sent to t belong to t or to an ancestor of t, and of two
\* such callbacks invoked for different queued entities of the family the
\* one invoked later belongs to a farther ancestor: first the callbacks of
\* t, then those of its parent, then of its grandparent, and so on.
C13_BubbleOrder ==
    \A i \in 1..Len(journal.ran) : \A j \in i..Len(journal.ran) :
        LET r == EventId(journal.ran[i].event)
            t == SentTarget(r)
        IN  \A a \in journal.ran[i].invocations :
                a.parent # 0 =>
                    /\ a.parent = t \/ ProperAncestor(a.parent, t)
                    /\ \A b \in journal.ran[j].invocations :
                          (/\ i < j
                           /\ EventId(journal.ran[j].event) = r
                           /\ b.parent # 0)
                             => ProperAncestor(b.parent, a.parent)

\* A pass in which the scoped callbacks of the target, of its parent and
\* of its grandparent were invoked, in that order, for one event.
C13_Witness ==
    /\ Len(journal.ran) = 3
    /\ SentTarget(EventId(journal.ran[1].event)) = 1
    /\ \A k \in 1..3 :
          /\ EventId(journal.ran[k].event) = EventId(journal.ran[1].event)
          /\ \E inv \in journal.ran[k].invocations :
                /\ inv.callback_entity = ScopedCallback(k)
                /\ inv.parent = k

\* Whether p is reached from e by one or more Parent steps in World w,
\* each taken from an entity that exists.
RECURSIVE Reaches(_, _, _, _)
Reaches(w, alive, p, e) ==
    /\ e \in alive
    /\ LET q == ParentOf(w, e)
       IN  q # 0 /\ (q = p \/ Reaches(w, alive, p, q))

\* The proper ancestors of t in World w.
AncestorsOf(w, alive, t) == {p \in Owners : Reaches(w, alive, p, t)}

\* C14: propagation result. In a run of propagate_events, for every event
\* its reader had not read, carrying Target(t), the events it enqueues
\* with PropagatedEvent(that event) are one per proper ancestor of t,
\* nearest ancestor first, each with Target(ancestor) and nothing else;
\* none for an event without Target or with a target that has no Parent or
\* no longer exists; and nothing else is enqueued.
C14_PropagationResult ==
    [][(listener.pc = "idle" /\ listener'.pc = "callbacks") =>
        LET unread == IterNew(listener.propagate_reader, events).chain
            sent == SubSeq(journal'.sent, Len(journal.sent) + 1,
                           Len(journal'.sent))
        IN  /\ events'.event_count = events.event_count + Len(sent)
            /\ \A k \in 1..Len(sent) :
                  /\ sent[k].propagated \in Range(unread)
                  /\ sent[k].kind = "none"
                  /\ sent[k].entity \in entities' \ entities
                  /\ world'.payload[sent[k].entity] =
                        [kind |-> "none", target |-> sent[k].target,
                         propagated |-> sent[k].propagated]
            /\ \A e \in Range(unread) :
                  LET t == IF e \in entities THEN world.payload[e].target
                           ELSE 0
                      mine == SelectSeq(sent,
                                        LAMBDA rec : rec.propagated = e)
                      due == AncestorsOf(world, entities, t)
                  IN  /\ {mine[k].target : k \in 1..Len(mine)} = due
                      /\ Len(mine) = Cardinality(due)
                      /\ \A i \in 1..Len(mine) : \A j \in (i + 1)..Len(mine) :
                            Reaches(world, entities,
                                    mine[j].target, mine[i].target)
                      /\ (t = 0 \/ t \notin entities \/ ParentOf(world, t) = 0)
                            => mine = <<>>]_vars

\* propagate_events has just run for an event sent to the first entity of
\* the chain: a derivative for its parent, then one for its grandparent.
C14_Witness ==
    /\ listener.pc = "callbacks"
    /\ Len(journal.sent) = 3
    /\ journal.sent[1].target = 1 /\ journal.sent[1].propagated = 0
    /\ journal.sent[2].target = 2 /\ journal.sent[3].target = 3
    /\ journal.sent[2].propagated = journal.sent[1].entity
    /\ journal.sent[3].propagated = journal.sent[1].entity

\* Whether the selection run_callbacks has just made for a queued entity
\* with Target t is the one the rule gives: the CallbackIdent accepts the
\* root event's components, and the callback entity has no Parent or its
\* Parent is t (and, with wants_alive, t exists).
SelectedBy(wants_alive) ==
    \A k \in 1..Len(listener.selected) :
        \A g \in Range(listener.selected[k].group) :
            g.target # 0 =>
                \A cb \in CallbackEntities \cap entities :
                    cb \in g.callbacks <=>
                        /\ IdentAccepts(world.callbacks[cb].ident,
                                        world.payload[EventId(g.event)])
                        /\ \/ ParentOf(world, cb) = 0
                           \/ /\ ParentOf(world, cb) = g.target
                              /\ wants_alive => g.target \in entities

\* C15 as stated: a callback entity is selected iff its CallbackIdent
\* accepts the root event's components and it has no Parent or its Parent
\* is the resolved target t.
C15_Original == SelectedBy(FALSE)

\* C15: matching rule. For a dispatched event (root or derivative) with
\* resolved target t a callback entity is selected iff its CallbackIdent
\* accepts the root event's components and it has no Parent or its Parent
\* is t; in src/event_listener.rs a callback entity whose Parent is t is
\* selected only if t still exists. A scoped callback whose Parent differs
\* from t is never selected.
C15_MatchingRule == SelectedBy(listener.engine = "src")

\* run_callbacks has just selected the callbacks for the derivative sent
\* for the second entity of the chain: the scoped callback of that entity
\* and the global one, not the scoped callbacks of the other entities.
C15_Witness ==
    /\ Len(listener.selected) = 1
    /\ Len(listener.selected[1].group) = 1
    /\ IsPropagated(listener.selected[1].group[1].event)
    /\ listener.selected[1].group[1].target = 2
    /\ listener.selected[1].group[1].callbacks =
          {ScopedCallback(2), GlobalCallback}

\* C16: at most one execution in flight. While a callback runs, the
\* callback record is off its callback entity: the entity exists, carries
\* its CallbackIdent and no CallbackSystemInner, and the record is the one
\* the engine holds.
C16_RecordAbsentWhileRunning ==
    listener.pc = "run" =>
        /\ Len(listener.running) = 1
        /\ LET running == Head(listener.running)
           IN  /\ running.callback_entity \in entities
               /\ running.system # "None"
               /\ world.callbacks[running.callback_entity].system = "None"
               /\ world.callbacks[running.callback_entity].ident
                     = SetupWorld.callbacks[running.callback_entity].ident

\* A callback that ran before (its record is Ready) is running again, for
\* a derivative.
C16_Witness ==
    /\ listener.pc = "run"
    /\ Head(listener.running).system = "Ready"
    /\ IsPropagated(Head(listener.running).event)
    /\ world.callbacks[Head(listener.running).callback_entity].system = "None"

\* Whether callback entity cb carries its callback record in World w.
HasRecord(w, cb) == w.callbacks[cb].system # "None"

\* C17: reinsertion. When a deferred action whose callback ran without
\* fault returns, the record (run once more: Ready) is on the callback
\* entity iff the entity still exists; so, unless a callback panicked,
\* outside a callback's run every callback entity that exists carries its
\* record and no despawned one does; and a callback that despawned its own
\* entity is not run again.
C17_Reinserted ==
    /\ [][(listener.pc = "run" /\ panicked' = panicked) =>
            LET cb == Head(listener.running).callback_entity
            IN  /\ listener'.pc # "run"
                /\ HasRecord(world', cb) <=> cb \in entities'
                /\ cb \in entities' =>
                      world'.callbacks[cb]
                         = [SetupWorld.callbacks[cb] EXCEPT !.system = "Ready"]
                /\ \A other \in CallbackEntities \ {cb} :
                      world'.callbacks[other] = world.callbacks[other]]_vars
    /\ []((panicked = {} /\ listener.pc # "run") =>
            \A cb \in CallbackEntities :
                HasRecord(world, cb) <=> cb \in entities)
    /\ [](\A i \in 1..Len(journal.ran) :
            \A inv \in journal.ran[i].invocations :
                inv.effect = "despawn_self" =>
                    /\ inv.callback_entity \notin entities
                    /\ listener.pc = "run" =>
                          Head(listener.running).callback_entity
                             # inv.callback_entity
                    /\ \A j \in (i + 1)..Len(journal.ran) :
                          \A later \in journal.ran[j].invocations :
                              later.callback_entity # inv.callback_entity)

\* The global callback despawned its own entity while it ran for the root
\* event; the pass went on and a scoped callback ran for a derivative and
\* has its record back.
C17_Witness ==
    /\ listener.pc = "idle"
    /\ Len(journal.ran) >= 2
    /\ \E inv \in journal.ran[1].invocations :
          /\ inv.callback_entity = GlobalCallback
          /\ inv.effect = "despawn_self"
    /\ GlobalCallback \notin entities
    /\ ~HasRecord(world, GlobalCallback)
    /\ \E inv \in journal.ran[2].invocations :
          /\ inv.callback_entity = ScopedCallback(2)
          /\ world.callbacks[inv.callback_entity].system = "Ready"

\* The Target a queued entity was sent with (0: none).
SentWith(e) ==
    IF \E k \in 1..Len(journal.sent) : journal.sent[k].entity = e
    THEN (CHOOSE rec \in Range(journal.sent) : rec.entity = e).target
    ELSE 0

\* C18: dispatch context for propagated events. While a callback runs for
\* a derivative d of root event r, d sent with Target(p): ListenerInput
\* holds the EventType whose id is r and which is propagated, r's Target
\* reads p, and d's Target holds the target r was sent with.
C18_DispatchContext ==
    (listener.pc = "run" /\ IsPropagated(Head(listener.running).event)) =>
        LET event == Head(listener.running).event
            r == EventId(event)
            d == event.propagated
        IN  /\ world.input = <<event>>
            /\ IsPropagated(world.input[1])
            /\ EventId(world.input[1]) = r
            /\ world.payload[d].propagated = r
            /\ world.payload[r].target = SentWith(d)
            /\ world.payload[d].target = SentWith(r)

\* A callback panicked in the current pass.
CallbackPanicked ==
    \E i \in 1..Len(journal.ran) :
        \E inv \in journal.ran[i].invocations : inv.effect = "panic"

\* C19 as stated: a panic in one callback does not abort the pass: the
\* engine goes on to the remaining callbacks and events.
C19_Original ==
    CallbackPanicked => ENABLED NextListeners

\* C19: a panic in a callback is not isolated: it leaves run_callbacks as
\* a panic, so the pass ends there. No step of the engine follows; the
\* callback that panicked is the last one invoked, its record is not put
\* back, and the callbacks still queued for the event and the events still
\* unread are not taken up.
C19_PanicAbortsPass ==
    CallbackPanicked =>
        /\ ~ENABLED NextListeners
        /\ panicked # {}
        /\ listener.pc = "run"
        /\ LET running == Head(listener.running)
               last == journal.ran[Len(journal.ran)]
           IN  /\ last.event = running.event
               /\ \E inv \in last.invocations :
                     /\ inv.callback_entity = running.callback_entity
                     /\ inv.effect = "panic"
               /\ ~HasRecord(world, running.callback_entity)
               /\ \A cb \in Head(listener.queue).pending :
                     \A inv \in last.invocations : inv.callback_entity # cb

\* A callback panicked while another callback was queued for the same
\* event and a derivative was still unread.
C19_Witness ==
    /\ CallbackPanicked
    /\ Head(listener.queue).pending # {}
    /\ listener.chain # <<>>

\* ------------------------------------------- damage.rs: run_damage_schedule

\* The World of an application with DamagePlugin: the chain of entities,
\* each with Health; no callback registered, no event.
DamageWorld ==
    [parent |-> [e \in Owners |-> IF e < NumOwners THEN e + 1 ELSE 0],
     payload |-> <<>>,
     callbacks |-> <<>>,
     input |-> <<>>]

\* The systems of DamageSchedule::Attack and DamageSchedule::Kill, in the
\* order of their chains; each has its Local reader.
AttackSystems ==
    <<"attack.propagate_events", "attack.run_callbacks", "deal_damage">>

KillSystems ==
    <<"kill.propagate_events", "kill.run_callbacks", "kill_entities">>

DamageSystems == Range(AttackSystems) \cup Range(KillSystems)

\* run_damage_schedule not running, every Local reader at its default,
\* Health::new(health) on every entity.
NewDamage(health) ==
    [pc |-> "idle", passes |-> 0, event_count |-> 0,
     readers |-> [sys \in DamageSystems |-> DefaultReader.last_event_count],
     health |-> [o \in Owners |-> health],
     amount |-> <<>>,
     sent |-> <<>>]

\* Mutant of PassAddedNothing: the loop also ends after a pass that added
\* one event.
PassAddedAtMostOne(q, event_count) == QueueLen(q) <= event_count + 1

\* Mutant of PassAddedNothing: the loop ends after its first pass.
PassAlwaysLast(q, event_count) == TRUE

\* The loop test of run_damage_schedule:
\* world.resource::<EventEntities>().len() == event_count
PassAddedNothing(q, event_count) == QueueLen(q) = event_count

\* The body of deal_damage over the events its reader yields
\* (QueryEventReader<(Entity, &Damage, &Target, Option<&Instigator>)>
\* passes over the events that are gone or lack Damage or Target): the
\* Health of the target, if it has one, is lowered by saturating_sub, and
\* at 0 a (Target(target), Kill::new(attack)) is sent.
RECURSIVE DealDamageLoop(_, _, _, _, _)
DealDamageLoop(chain, health, amount, w, alive) ==
    IF chain = <<>> THEN [health |-> health, kills |-> <<>>]
    ELSE LET attack == Head(chain)
             hit == /\ attack \in alive
                    /\ w.payload[attack].kind = "Damage"
                    /\ w.payload[attack].target \in Owners \cap alive
             target == w.payload[attack].target
             new_health == SaturatingSub(health[target], amount[attack])
             rest == DealDamageLoop(
                        Tail(chain),
                        IF hit THEN [health EXCEPT ![target] = new_health]
                        ELSE health,
                        amount, w, alive)
         IN  [health |-> rest.health,
              kills |-> (IF hit /\ new_health = 0
                         THEN <<[kind |-> "Kill", target |-> target,
                                 propagated |-> 0]>>
                         ELSE <<>>) \o rest.kills]

\* The entities kill_entities despawns for the events its reader yields
\* (QueryEventReader<(&Kill, &Target, Option<&Instigator>)>): every target
\* that exists, with despawn_recursive: the target and its descendants.
KilledBy(chain, w, alive) ==
    LET targets == {w.payload[e].target :
                       e \in {x \in Range(chain) \cap alive :
                                 /\ w.payload[x].kind = "Kill"
                                 /\ w.payload[x].target \in alive}}
    IN  targets \cup {e \in alive : \E t \in targets : Reaches(w, alive, t, e)}

\* The World without the entities of a set.
DespawnedAll(w, gone) ==
    [w EXCEPT !.parent = [x \in DOMAIN w.parent |->
                             IF x \in gone THEN 0 ELSE w.parent[x]],
              !.payload = [x \in DOMAIN w.payload |->
                             IF x \in gone THEN NoComponents
                             ELSE w.payload[x]]]

\* History of the sends of a system run in the current pass.
SentInPass(first, bundles, pass) ==
    [i \in 1..Len(bundles) |->
        [entity |-> first + i - 1, kind |-> bundles[i].kind,
         target |-> bundles[i].target, pass |-> pass]]

\* The state of an application with DamagePlugin after setup: every entity
\* of the chain has Health::new(health); nothing sent yet.
InitDamage ==
    /\ events = DefaultEventEntities
    /\ signal = FALSE
    /\ entities = Owners
    /\ nextEntity = FirstEvent
    /\ readers = [r \in Readers |-> NoReader]
    /\ iters = [r \in Readers |-> NoIter]
    /\ panicked = {}
    /\ log = <<>>
    /\ removed = 0
    /\ hist = [r \in Readers |-> NoHist]
    /\ world = DamageWorld
    /\ listener = NoListener
    /\ journal = NoJournal
    /\ \E health \in 1..MaxHealth : damage = NewDamage(health)
    /\ ungated = NoUngated

\* The system, or the loop test, that follows a system in
\* run_damage_schedule.
After(sys) ==
    CASE sys = "attack.propagate_events" -> "attack.run_callbacks"
      [] sys = "attack.run_callbacks" -> "deal_damage"
      [] sys = "deal_damage" -> "kill.propagate_events"
      [] sys = "kill.propagate_events" -> "kill.run_callbacks"
      [] sys = "kill.run_callbacks" -> "kill_entities"
      [] sys = "kill_entities" -> "test"

\* send_event(world, (Damage(amount), Target(t))) while
\* run_damage_schedule is not running.
SendAttack(t, amount) ==
    LET bundle == <<[kind |-> "Damage", target |-> t, propagated |-> 0]>>
    IN  /\ Running
        /\ damage.pc \in {"idle", "returned"}
        /\ Cardinality(DOMAIN damage.amount) < MaxAttacks
        /\ events' = Push(events, nextEntity)
        /\ entities' = entities \cup {nextEntity}
        /\ nextEntity' = nextEntity + 1
        /\ world' = WithPayloads(world, nextEntity, bundle)
        /\ damage' = [damage EXCEPT
                        !.pc = "idle",
                        !.amount =
                            [e \in DOMAIN damage.amount \cup {nextEntity} |->
                                IF e = nextEntity THEN amount
                                ELSE damage.amount[e]]]
        /\ UNCHANGED <<listener, journal, panicked>>
        /\ UNCHANGED qvars

\* run_damage_schedule.run_if(events_not_empty), up to the first schedule:
\* event_count = len().
RunDamageSchedule ==
    /\ Running
    /\ damage.pc \in {"idle", "returned"}
    /\ EventsNotEmpty(events)
    /\ damage' = [damage EXCEPT
                    !.pc = AttackSystems[1],
                    !.passes = 1,
                    !.event_count = QueueLen(events),
                    !.sent = <<>>]
    /\ UNCHANGED <<events, entities, nextEntity, world, listener, journal,
                   panicked>>
    /\ UNCHANGED qvars

\* propagate_events of the Attack or of the Kill schedule, with its
\* commands applied; with no event in the queue the run condition
\* any_events keeps it and run_callbacks from running.
DamagePropagate(sys) ==
    LET it == IterNew(damage.readers[sys], events)
        bundles == DerivativesOf(it.chain, world, entities)
        ids == [i \in 1..Len(bundles) |-> nextEntity + i - 1]
    IN  /\ Running
        /\ damage.pc = sys
        /\ IF EventsNotEmpty(events)
           THEN /\ events' = Extend(events, ids)
                /\ entities' = entities \cup Range(ids)
                /\ nextEntity' = nextEntity + Len(ids)
                /\ world' = WithPayloads(world, nextEntity, bundles)
                /\ damage' = [damage EXCEPT
                       !.pc = After(sys),
                       !.readers[sys] = it.last_event_count + Len(it.chain),
                       !.sent = @ \o SentInPass(nextEntity, bundles,
                                                damage.passes)]
                /\ panicked' = panicked
                      \cup (IF it.assert_ok /\ it.sub_ok THEN {}
                            ELSE {"propagate_events: EntityEventIterator::new"})
           ELSE /\ damage' = [damage EXCEPT !.pc = After(After(sys))]
                /\ UNCHANGED <<events, entities, nextEntity, world, panicked>>
        /\ UNCHANGED <<listener, journal>>
        /\ UNCHANGED qvars

\* run_callbacks of the Attack or of the Kill schedule (the copy in
\* src/event_listener.rs): its reader yields every unread event; with no
\* CallbackIdent in the World nothing is queued, and the ListenerInput it
\* inserts is removed at its end.
DamageCallbacks(sys) ==
    LET it == IterNew(damage.readers[sys], events)
        queued == {e \in Range(it.chain) :
                      \E g \in Range(Selection("src", world, entities, e)) :
                          g.callbacks # {}}
    IN  /\ Running
        /\ damage.pc = sys
        /\ queued = {}
        /\ damage' = [damage EXCEPT
                        !.pc = After(sys),
                        !.readers[sys] = it.last_event_count + Len(it.chain)]
        /\ panicked' = panicked
              \cup (IF it.assert_ok /\ it.sub_ok THEN {}
                    ELSE {"run_callbacks: EntityEventIterator::new"})
        /\ UNCHANGED <<events, entities, nextEntity, world, listener,
                       journal>>
        /\ UNCHANGED qvars

\* deal_damage, with its commands applied: the Kill events are spawned,
\* pushed and given their bundles.
DealDamage ==
    LET it == IterNew(damage.readers["deal_damage"], events)
        dealt == DealDamageLoop(it.chain, damage.health, damage.amount,
                                world, entities)
        ids == [i \in 1..Len(dealt.kills) |-> nextEntity + i - 1]
    IN  /\ Running
        /\ damage.pc = "deal_damage"
        /\ events' = Extend(events, ids)
        /\ entities' = entities \cup Range(ids)
        /\ nextEntity' = nextEntity + Len(ids)
        /\ world' = WithPayloads(world, nextEntity, dealt.kills)
        /\ damage' = [damage EXCEPT
                        !.pc = After("deal_damage"),
                        !.readers["deal_damage"] =
                            it.last_event_count + Len(it.chain),
                        !.health = dealt.health,
                        !.sent = @ \o SentInPass(nextEntity, dealt.kills,
                                                 damage.passes)]
        /\ panicked' = panicked
              \cup (IF it.assert_ok /\ it.sub_ok THEN {}
                    ELSE {"deal_damage: EntityEventIterator::new"})
        /\ UNCHANGED <<listener, journal>>
        /\ UNCHANGED qvars

\* kill_entities, with its commands applied.
KillEntities ==
    LET it == IterNew(damage.readers["kill_entities"], events)
        gone == KilledBy(it.chain, world, entities)
    IN  /\ Running
        /\ damage.pc = "kill_entities"
        /\ entities' = entities \ gone
        /\ world' = DespawnedAll(world, gone)
        /\ damage' = [damage EXCEPT
                        !.pc = After("kill_entities"),
                        !.readers["kill_entities"] =
                            it.last_event_count + Len(it.chain)]
        /\ panicked' = panicked
              \cup (IF it.assert_ok /\ it.sub_ok THEN {}
                    ELSE {"kill_entities: EntityEventIterator::new"})
        /\ UNCHANGED <<events, nextEntity, listener, journal>>
        /\ UNCHANGED qvars

\* The end of the loop body of run_damage_schedule: it returns when len()
\* is what it was at the start of the pass, and otherwise runs the
\* schedules again.
LoopTest ==
    /\ Running
    /\ damage.pc = "test"
    /\ damage' = IF PassAddedNothing(events, damage.event_count)
                 THEN [damage EXCEPT !.pc = "returned"]
                 ELSE [damage EXCEPT
                         !.pc = AttackSystems[1],
                         !.passes = @ + 1,
                         !.event_count = QueueLen(events)]
    /\ UNCHANGED <<events, entities, nextEntity, world, listener, journal,
                   panicked>>
    /\ UNCHANGED qvars

NextDamage ==
    \/ \E t \in Owners : \E amount \in 1..MaxHealth : SendAttack(t, amount)
    \/ RunDamageSchedule
    \/ \E sys \in {AttackSystems[1], KillSystems[1]} : DamagePropagate(sys)
    \/ \E sys \in {AttackSystems[2], KillSystems[2]} : DamageCallbacks(sys)
    \/ DealDamage
    \/ KillEntities
    \/ LoopTest

SpecDamage == InitDamage /\ [][NextDamage]_vars

\* C20: fixed-point cascade. When run_damage_schedule returns, the last
\* pass added no event: every event sent during the invocation (the Kill
\* events of deal_damage, the derivatives of propagate_events) was sent in
\* an earlier pass, so a later pass of the same invocation ran over it;
\* the reader of every system of the Attack and Kill schedules stands at
\* event_count, so none of these events is left unread; and the target of
\* every Kill event sent, and every entity whose Health is 0, is despawned.
C20_FixedPointCascade ==
    damage.pc = "returned" =>
        /\ \A sys \in DamageSystems :
              damage.readers[sys] = events.event_count
        /\ \A k \in 1..Len(damage.sent) :
              /\ damage.sent[k].pass < damage.passes
              /\ damage.sent[k].entity \in Retained(events)
              /\ damage.sent[k].kind = "Kill" =>
                    damage.sent[k].target \notin entities
        /\ \A o \in Owners : damage.health[o] = 0 => o \notin entities

\* run_damage_schedule has returned after three passes or more: an attack
\* brought the Health of the first entity to 0, deal_damage sent the Kill
\* event in the first pass, the entity is despawned, and derivatives were
\* sent for the Kill event in a later pass.
C20_Witness ==
    /\ damage.pc = "returned"
    /\ damage.passes >= 3
    /\ damage.health[1] = 0 /\ 1 \notin entities
    /\ \E k \in 1..Len(damage.sent) :
          /\ damage.sent[k].kind = "Kill"
          /\ damage.sent[k].target = 1
          /\ damage.sent[k].pass = 1
    /\ \E k \in 1..Len(damage.sent) :
          /\ damage.sent[k].kind = "none"
          /\ damage.sent[k].pass >= 2

\* ------------------------------------------- events sent by callbacks

\* What the callbacks do in the runs in which they send events.
CascadeEffects == {"none", "send_event"}

\* The application sends an event and runs the plugin's entry point,
\* run_event_listener_schedule, which runs the listener schedule once:
\* (propagate_events, run_callbacks).chain().run_if(any_events).
NextCascade ==
    \/ \E kind \in Payloads : \E t \in Owners \cup {0} : SendEventTo(kind, t)
    \/ PropagateEvents
    \/ RunCallbacksBegin
    \/ ReadEvent
    \/ \E cb \in CallbackEntities : DeferredBegin(cb)
    \/ \E effect \in CascadeEffects : CallbackRun(effect)
    \/ RunCallbacksEnd

SpecCascade == InitListeners /\ [][NextCascade]_vars

\* The targets of the derivatives sent for event e.
PropagatedTo(e) ==
    {journal.sent[k].target :
        k \in {i \in 1..Len(journal.sent) : journal.sent[i].propagated = e}}

\* C21 as stated: when the entry point returns, an event a callback sent
\* during the pass has been delivered to its matching callbacks.
C21_Original ==
    (listener.pc = "idle" /\ panicked = {}) =>
        \A k \in 1..Len(journal.by_callback) :
            journal.by_callback[k].pass = listener.passes =>
                Due(SentWith(journal.by_callback[k].entity))
                    \subseteq InvokedFor(journal.by_callback[k].entity)

\* C21: the entry point runs the listener schedule once. An event a
\* callback sends is not taken up in the pass in which it is sent: no
\* callback is invoked for it and no derivative is sent for it, and when
\* the entry point returns it is in the queue, unread by propagate_events
\* and by run_callbacks. The next run of the entry point propagates it and
\* delivers it to its matching callbacks.
C21_DeliveredNextRun ==
    \A k \in 1..Len(journal.by_callback) :
        LET e == journal.by_callback[k].entity
            sent_in == journal.by_callback[k].pass
        IN  /\ sent_in = listener.passes =>
                  /\ InvokedFor(e) = {}
                  /\ PropagatedTo(e) = {}
                  /\ listener.pc = "idle" =>
                        /\ e \in Retained(events)
                        /\ listener.reader < events.event_count
                        /\ listener.propagate_reader < events.event_count
            /\ (sent_in = listener.passes - 1 /\ listener.pc = "idle") =>
                  /\ Due(SentWith(e)) \subseteq InvokedFor(e)
                  /\ PropagatedTo(e)
                        = AncestorsOf(world, entities, SentWith(e))

\* A callback sent an event to the first entity of the chain in the first
\* run of the entry point; the second run sent its derivatives and invoked
\* the callbacks of the three entities for it.
C21_Witness ==
    /\ listener.pc = "idle"
    /\ listener.passes = 2
    /\ Len(journal.by_callback) = 1
    /\ journal.by_callback[1].pass = 1
    /\ SentWith(journal.by_callback[1].entity) = 1
    /\ PropagatedTo(journal.by_callback[1].entity) = {2, 3}
    /\ ScopedCallback(1) \in InvokedFor(journal.by_callback[1].entity)
    /\ \A o \in {2, 3} :
          \E i \in 1..Len(journal.ran) :
              /\ EventId(journal.ran[i].event) = journal.by_callback[1].entity
              /\ \E inv \in journal.ran[i].invocations :
                    inv.callback_entity = ScopedCallback(o)

\* What entity e carried when it was sent, as the journal has it.
SentRecord(e) == CHOOSE rec \in Range(journal.sent) : rec.entity = e

\* C22: only root events are propagated. Every PropagatedEvent(x) sent
\* names an event x that carries no PropagatedEvent itself, and the
\* derivatives sent for a root event are at most one per ancestor of its
\* target.
C22_OnlyRootsPropagated ==
    \A k \in 1..Len(journal.sent) :
        LET rec == journal.sent[k]
        IN  /\ rec.propagated # 0 =>
                  SentRecord(rec.propagated).propagated = 0
            /\ rec.propagated = 0 =>
                  /\ \A p \in PropagatedTo(rec.entity) :
                        ProperAncestor(p, rec.target)
                  /\ Cardinality({i \in 1..Len(journal.sent) :
                                     journal.sent[i].propagated = rec.entity})
                        = Cardinality(PropagatedTo(rec.entity))

\* ------------------------------ callbacks that despawn an ancestor

\* What the callbacks do in the runs in which they despawn the Parent of
\* the entity they are notified for.
AncestorEffects == {"none", "despawn_ancestor"}

NextAncestors ==
    \/ \E kind \in Payloads : \E t \in Owners \cup {0} : SendEventTo(kind, t)
    \/ PropagateEvents
    \/ RunCallbacksBegin
    \/ ReadEvent
    \/ \E cb \in CallbackEntities : DeferredBegin(cb)
    \/ \E effect \in AncestorEffects : CallbackRun(effect)
    \/ RunCallbacksEnd

SpecAncestors == InitListeners /\ [][NextAncestors]_vars

\* The entities of the chain from t upward, below p, that are gone.
GoneBelow(p, t) ==
    {x \in Owners \ entities :
        /\ x = t \/ ProperAncestor(x, t)
        /\ ProperAncestor(p, x)}

\* C23 as stated: once an entity of the ancestor chain is despawned, no
\* callback of an ancestor above it runs for the event.
C23_Original ==
    \A i \in 1..Len(journal.ran) :
        \A inv \in journal.ran[i].invocations :
            inv.parent # 0 =>
                GoneBelow(inv.parent,
                          SentTarget(EventId(journal.ran[i].event))) = {}

\* C23: the derivatives are sent before any callback runs, so the despawn
\* of an entity of the ancestor chain by a callback does not halt the
\* pass: run_callbacks still selects, for the derivative sent for an
\* ancestor that exists, the scoped callbacks of that ancestor, and when
\* the pass ends they have been invoked, also above the despawned entity.
C23_AncestorsStillNotified ==
    /\ \A k \in 1..Len(listener.selected) :
          \A g \in Range(listener.selected[k].group) :
              (IsPropagated(g.event) /\ g.target \in entities) =>
                  {cb \in CallbackEntities \cap entities :
                      /\ ParentOf(world, cb) = g.target
                      /\ IdentAccepts(world.callbacks[cb].ident,
                                      world.payload[EventId(g.event)])}
                      \subseteq g.callbacks
    /\ (listener.pc = "idle" /\ listener.passes = 1) =>
          \A k \in 1..Len(journal.sent) :
              LET rec == journal.sent[k]
              IN  (/\ rec.propagated # 0
                   /\ SentRecord(rec.propagated).kind = "TestEvent"
                   /\ rec.target \in entities)
                      => Due(rec.target) \subseteq InvokedFor(rec.entity)

\* The callback of the first entity of the chain despawned the second
\* entity while it ran for the root event; the pass went on, and the
\* callback of the third entity was invoked for the derivative sent for it.
C23_Witness ==
    /\ listener.pc = "idle"
    /\ listener.passes = 1
    /\ Len(journal.sent) = 3
    /\ journal.sent[1].target = 1
    /\ 2 \notin entities
    /\ \E inv \in journal.ran[1].invocations :
          /\ inv.callback_entity = ScopedCallback(1)
          /\ inv.effect = "despawn_ancestor"
    /\ ScopedCallback(3) \in InvokedFor(journal.sent[3].entity)

\* C24: dangling target. When the resolved target of an event no longer
\* exists at the time run_callbacks selects the callbacks, no callback
\* entity with a Parent is selected for the event, and the callback
\* entities without a Parent whose CallbackIdent accepts the root event
\* are selected.
C24_DanglingTarget ==
    \A k \in 1..Len(listener.selected) :
        \A g \in Range(listener.selected[k].group) :
            (g.target # 0 /\ g.target \notin entities) =>
                /\ \A cb \in g.callbacks : ParentOf(world, cb) = 0
                /\ \A cb \in CallbackEntities \cap entities :
                      (/\ ParentOf(world, cb) = 0
                       /\ IdentAccepts(world.callbacks[cb].ident,
                                       world.payload[EventId(g.event)]))
                          => cb \in g.callbacks

\* C25: entity-scoped registration. A callback added to entity E for
\* TestEvent (a callback entity with Parent E) is invoked only for a
\* queued entity whose Target is E and whose root event carries TestEvent
\* and a Target; E is the root's own target or one of its ancestors.
C25_ScopedRunsForTarget ==
    \A i \in 1..Len(journal.ran) :
        \A inv \in journal.ran[i].invocations :
            inv.parent # 0 =>
                LET root == SentRecord(EventId(journal.ran[i].event))
                    queued == SentRecord(QueuedEntity(journal.ran[i].event))
                IN  /\ root.kind = "TestEvent"
                    /\ root.target # 0
                    /\ queued.target = inv.parent
                    /\ \/ inv.parent = root.target
                       \/ ProperAncestor(inv.parent, root.target)

\* The callback added to the second entity of the chain was invoked for
\* the derivative of a TestEvent sent to the first entity, and the
\* callback added to the first entity for the root event itself.
C25_Witness ==
    /\ Len(journal.ran) >= 2
    /\ ~IsPropagated(journal.ran[1].event)
    /\ SentTarget(EventId(journal.ran[1].event)) = 1
    /\ \E inv \in journal.ran[1].invocations :
          inv.callback_entity = ScopedCallback(1)
    /\ IsPropagated(journal.ran[2].event)
    /\ \E inv \in journal.ran[2].invocations :
          /\ inv.callback_entity = ScopedCallback(2)
          /\ inv.parent = 2

\* ------------------------- add_callback on an entity (src/event_listener.rs)

\* The world after EntityWorldMut::add_callback of src/event_listener.rs
\* added callback entity cb: callback.into_bundle() gives it the ident of
\* T alone, add_child the Parent.
AddCallback(w, cb) ==
    [w EXCEPT !.callbacks[cb].ident.with_target = FALSE]

\* The callback of the first entity of the chain was added with
\* add_callback, the others with entity_callback.
InitAddCallback ==
    /\ events = DefaultEventEntities
    /\ signal = FALSE
    /\ entities = Owners \cup CallbackEntities
    /\ nextEntity = FirstEvent
    /\ readers = [r \in Readers |-> NoReader]
    /\ iters = [r \in Readers |-> NoIter]
    /\ panicked = {}
    /\ log = <<>>
    /\ removed = 0
    /\ hist = [r \in Readers |-> NoHist]
    /\ world = AddCallback(SetupWorld, ScopedCallback(1))
    /\ listener = NewListener("src")
    /\ journal = NoJournal
    /\ damage = NoDamage
    /\ ungated = NoUngated

SpecAddCallback == InitAddCallback /\ [][NextListeners]_vars

\* C26: in src/event_listener.rs a callback added with add_callback on
\* entity E runs for every event that carries TestEvent, whatever its
\* Target: when the first pass has ended, the callback has been invoked
\* for every TestEvent sent (for the event or one of its derivatives), as
\* long as the event, E and the callback entity still exist.
C26_RunsRegardlessOfTarget ==
    (listener.pc = "idle" /\ listener.passes = 1 /\ panicked = {}) =>
        \A k \in 1..Len(journal.sent) :
            LET rec == journal.sent[k]
            IN  (/\ rec.kind = "TestEvent"
                 /\ rec.entity \in entities
                 /\ {1, ScopedCallback(1)} \subseteq entities)
                    => \E i \in 1..Len(journal.ran) :
                          /\ EventId(journal.ran[i].event) = rec.entity
                          /\ \E inv \in journal.ran[i].invocations :
                                inv.callback_entity = ScopedCallback(1)

\* ------------------------------------------- registration state machine

\* The state of the registration of callback entity cb: the record on the
\* entity, or the record run_callbacks took off it and is running; "None"
\* when there is no record (the entity was despawned, or the run panicked
\* and the record was dropped).
Registration(cb) ==
    IF listener.running # <<>> /\ Head(listener.running).callback_entity = cb
    THEN IF Running THEN Head(listener.running).system ELSE "None"
    ELSE world.callbacks[cb].system

\* How often the system of callback entity cb was initialized.
InitializedCount(cb) ==
    IF cb \in DOMAIN journal.initialized THEN journal.initialized[cb] ELSE 0

\* C27: registration state machine. A registration starts Pending; its
\* system is initialized at most once, by the first execution, which
\* leaves it Ready: a Pending registration has never been initialized (it
\* still holds its system), a Ready one has been initialized exactly once,
\* and no step takes a registration from Ready to Pending.
C27_RegistrationStates ==
    /\ \A cb \in CallbackEntities : Registration(cb) = "Pending"
    /\ [](\A cb \in CallbackEntities :
             /\ InitializedCount(cb) <= 1
             /\ Registration(cb) = "Pending" => InitializedCount(cb) = 0
             /\ Registration(cb) = "Ready" => InitializedCount(cb) = 1)
    /\ [][\A cb \in CallbackEntities :
             Registration(cb) = "Ready" => Registration(cb)' # "Pending"]_vars

\* The callback without Parent is running for the second time in a pass,
\* from Ready, with its one initialization behind it.
C27_Witness ==
    /\ listener.running # <<>>
    /\ Running
    /\ Head(listener.running).callback_entity = GlobalCallback
    /\ Head(listener.running).system = "Ready"
    /\ InitializedCount(GlobalCallback) = 1
    /\ IsPropagated(Head(listener.running).event)

\* -------------------------------------------------------- ListenerInput

\* C28 as stated: a ListenerInput exists only while a callback is being
\* invoked.
C28_Original == world.input # <<>> => listener.pc = "run"

\* C28: lifetime of the ListenerInput. There is at most one; none exists
\* before run_callbacks starts or after it has returned; while a callback
\* runs it holds the EventType the callback is run for. It is not removed
\* after each callback: crates/event_listener removes it when the closures
\* queued for one event are done, so none exists between two events, and
\* src/event_listener.rs inserts a placeholder when run_callbacks starts
\* and removes the resource only when all closures are done.
C28_InputLifetime ==
    /\ Len(world.input) <= 1
    /\ (Running /\ listener.pc \in {"idle", "callbacks"}) => world.input = <<>>
    /\ (Running /\ listener.pc = "run") =>
          world.input = <<Head(listener.running).event>>
    /\ (listener.engine = "crate" /\ listener.pc = "read") =>
          world.input = <<>>
    /\ (listener.engine = "src" /\ listener.pc \in {"read", "apply", "run"}) =>
          world.input # <<>>

\* In crates/event_listener one callback has run for an event and another
\* is still queued for it: no callback is running, and the ListenerInput of
\* the first is still in the World.
C28_Witness ==
    /\ listener.engine = "crate"
    /\ listener.pc = "apply"
    /\ Running
    /\ journal.ran # <<>>
    /\ listener.queue # <<>>
    /\ Head(listener.queue).pending # {}
    /\ world.input = <<Head(listener.queue).event>>

\* ------------------------------------------------ query-filtered reads

\* self.query.get_inner(entity) is Ok, for Query<&TestEvent>: the entity
\* exists and has the component.
QueryGet(w, alive, entity) ==
    entity \in alive /\ w.payload[entity].kind = "TestEvent"

\* Mutant of QueryNext: the inner iterator's entity is returned without
\* the lookup.
QueryNextYieldsAll(it, w, alive) ==
    LET res == IterNext(it)
    IN  IF res.item = <<>>
        THEN [it |-> res.it, item |-> <<>>, consumed |-> <<>>]
        ELSE [it |-> res.it, item |-> res.item,
              consumed |-> <<[entity |-> res.item[1], yielded |-> TRUE]>>]

RECURSIVE QueryNext(_, _, _)
\* QueryEventIterator::next: inner.next() until an entity passes the
\* lookup; the state of the inner iterator, the item returned, and the
\* entities the inner iterator gave on the way.
QueryNext(it, w, alive) ==
    LET res == IterNext(it)
    IN  IF res.item = <<>>
        THEN [it |-> res.it, item |-> <<>>, consumed |-> <<>>]
        ELSE IF QueryGet(w, alive, res.item[1])
        THEN [it |-> res.it, item |-> res.item,
              consumed |-> <<[entity |-> res.item[1], yielded |-> TRUE]>>]
        ELSE LET rest == QueryNext(res.it, w, alive)
             IN  [rest EXCEPT !.consumed =
                     <<[entity |-> res.item[1], yielded |-> FALSE]>> \o @]

RECURSIVE QueryTimes(_, _, _, _)
\* n calls of next() on one QueryEventIterator.
QueryTimes(it, n, w, alive) ==
    IF n = 0 THEN [it |-> it, consumed |-> <<>>]
    ELSE LET res == QueryNext(it, w, alive)
             rest == QueryTimes(res.it, n - 1, w, alive)
         IN  [rest EXCEPT !.consumed = res.consumed \o @]

\* The number of the read that is about to be made.
ReadNumber ==
    IF journal.reads = <<>> THEN 1
    ELSE journal.reads[Len(journal.reads)].read + 1

InitQuery ==
    /\ events = DefaultEventEntities
    /\ signal = FALSE
    /\ entities = {}
    /\ nextEntity = 1
    /\ readers = [r \in Readers |->
                    IF r = "r1"
                    THEN [exists |-> TRUE,
                          last_event_count |-> DefaultReader.last_event_count]
                    ELSE NoReader]
    /\ iters = [r \in Readers |-> NoIter]
    /\ panicked = {}
    /\ log = <<>>
    /\ removed = 0
    /\ hist = [r \in Readers |-> NoHist]
    /\ world = NoWorld
    /\ listener = NoListener
    /\ journal = NoJournal
    /\ damage = NoDamage
    /\ ungated = NoUngated

\* send_event(world, bundle): a bundle with or without TestEvent.
QuerySend(kind) ==
    LET bundle == <<[kind |-> kind, target |-> 0, propagated |-> 0]>>
    IN  /\ Running
        /\ nextEntity <= MaxEvents
        /\ events' = Push(events, nextEntity)
        /\ entities' = entities \cup {nextEntity}
        /\ nextEntity' = nextEntity + 1
        /\ world' = WithPayloads(world, nextEntity, bundle)
        /\ journal' = [journal EXCEPT !.sent = @ \o Sent(nextEntity, bundle)]
        /\ UNCHANGED <<listener, panicked, qvars, damage>>

\* world.despawn(e) of an event entity by the application.
QueryDespawn(e) ==
    /\ Running
    /\ e \in entities
    /\ Despawns < MaxDespawns
    /\ entities' = entities \ {e}
    /\ world' = Despawned(world, e)
    /\ UNCHANGED <<events, nextEntity, listener, journal, panicked, qvars,
                   damage>>

\* world.entity_mut(e).insert(TestEvent) on an event entity sent without.
QueryInsert(e) ==
    /\ Running
    /\ e \in entities
    /\ world.payload[e].kind = "Other"
    /\ world' = [world EXCEPT !.payload[e].kind = "TestEvent"]
    /\ UNCHANGED <<events, entities, nextEntity, listener, journal, panicked,
                   qvars, damage>>

\* update_events, when events_not_empty lets it run: update_drain and the
\* despawn of the entities it returns.
QueryUpdate ==
    LET res == UpdateDrain(events)
        drained == Range(res.drained)
    IN  /\ Running
        /\ EventsNotEmpty(events)
        /\ events' = res.queue
        /\ entities' = DespawnDrained(entities, res.drained)
        /\ world' = [world EXCEPT !.payload =
                        [e \in DOMAIN world.payload |->
                            IF e \in drained THEN NoComponents
                            ELSE world.payload[e]]]
        /\ UNCHANGED <<nextEntity, listener, journal, panicked, qvars, damage>>

\* A system with a QueryEventReader<&TestEvent> calls read() and next() n
\* times on the iterator, then lets it go; nothing else can touch the
\* World while the iterator borrows it.
QueryRead(n) ==
    LET new == IterNew(readers["r1"].last_event_count, events)
        res == QueryTimes([chain |-> new.chain, unread |-> new.unread,
                           last_event_count |-> new.last_event_count],
                          n, world, entities)
        number == ReadNumber
    IN  /\ Running
        /\ new.chain # <<>>
        /\ panicked' = panicked
              \cup (IF new.assert_ok THEN {}
                    ELSE {"EntityEventIterator::new: debug_assert_eq"})
              \cup (IF new.sub_ok THEN {}
                    ELSE {"EntityEventIterator::new: subtract with overflow"})
        /\ readers' = [readers EXCEPT !["r1"].last_event_count =
                                            res.it.last_event_count]
        /\ journal' = [journal EXCEPT !.reads = @ \o
              [i \in 1..Len(res.consumed) |->
                  [entity |-> res.consumed[i].entity,
                   yielded |-> res.consumed[i].yielded,
                   read |-> number,
                   alive |-> res.consumed[i].entity \in entities,
                   kind |-> world.payload[res.consumed[i].entity].kind]]]
        /\ UNCHANGED <<events, signal, entities, nextEntity, iters, log,
                       removed, hist, world, listener, damage, ungated>>

NextQuery ==
    \/ \E kind \in Payloads : QuerySend(kind)
    \/ \E e \in entities : QueryDespawn(e)
    \/ \E e \in entities : QueryInsert(e)
    \/ QueryUpdate
    \/ \E n \in 1..(MaxEvents + 1) : QueryRead(n)

SpecQuery == InitQuery /\ [][NextQuery]_vars

\* C29: query-filtered read. The QueryEventIterator returns an entity of
\* the queue exactly when the entity exists and has the component at the
\* time of the read; the others are passed over with no panic; and every
\* entity the reader has been given, returned or passed over, is behind
\* its cursor: no read gives it twice, whatever becomes of it later.
C29_SkippedIsConsumed ==
    /\ panicked = {}
    /\ \A i \in 1..Len(journal.reads) :
          LET rd == journal.reads[i]
          IN  /\ rd.yielded <=> (rd.alive /\ rd.kind = "TestEvent")
              /\ \A j \in 1..Len(journal.reads) :
                    j # i => journal.reads[j].entity # rd.entity
              /\ readers["r1"].last_event_count >= rd.entity

\* The first read passed over an entity sent without the component; the
\* component was inserted afterwards and the entity is still in the
\* queue; a second read returned a later entity and not that one.
C29_Witness ==
    \E i, j \in 1..Len(journal.reads) :
        /\ journal.reads[i].read = 1
        /\ ~journal.reads[i].yielded
        /\ journal.reads[i].kind = "Other"
        /\ QueryGet(world, entities, journal.reads[i].entity)
        /\ journal.reads[i].entity \in Retained(events)
        /\ journal.reads[j].read = 2
        /\ journal.reads[j].yielded

\* --------------------------------------------- the run conditions

\* Mutant of ReadAll: only events_b is read.
ReadAllNewerOnly(last_event_count, q) ==
    LET new == IterNewNewerOnly(last_event_count, q)
    IN  [last_event_count |-> q.event_count,
         items |-> new.chain,
         ok |-> TRUE]

\* A system with an EntityEventReader that reads to the end: the cursor it
\* leaves, the entities it is given, and whether the debug assertion and
\* the subtraction of EntityEventIterator::new succeed.
ReadAll(last_event_count, q) ==
    LET new == IterNew(last_event_count, q)
        done == Exhaust([chain |-> new.chain, unread |-> new.unread,
                         last_event_count |-> new.last_event_count])
    IN  [last_event_count |-> done.it.last_event_count,
         items |-> SubSeq(new.chain, 1, done.n),
         ok |-> new.assert_ok /\ new.sub_ok]

\* The application twice: with the run conditions (events, readers) and
\* without them (ungated), given the same inputs.
InitGated ==
    /\ events = DefaultEventEntities
    /\ signal = FALSE
    /\ entities = {}
    /\ nextEntity = 1
    /\ readers = [r \in Readers |->
                    IF r = "r1"
                    THEN [exists |-> TRUE,
                          last_event_count |-> DefaultReader.last_event_count]
                    ELSE NoReader]
    /\ iters = [r \in Readers |-> NoIter]
    /\ panicked = {}
    /\ log = <<>>
    /\ removed = 0
    /\ hist = [r \in Readers |-> NoHist]
    /\ world = NoWorld
    /\ listener = NoListener
    /\ journal = NoJournal
    /\ damage = NoDamage
    /\ ungated = [events |-> DefaultEventEntities,
                  last_event_count |-> DefaultReader.last_event_count,
                  out |-> [gated |-> <<>>, ungated |-> <<>>],
                  skipped_update |-> -1,
                  skipped_read |-> -1]

\* send_event: the same event in both.
GatedSend ==
    /\ Running
    /\ nextEntity <= MaxEvents
    /\ events' = Push(events, nextEntity)
    /\ ungated' = [ungated EXCEPT !.events = Push(@, nextEntity)]
    /\ entities' = entities \cup {nextEntity}
    /\ nextEntity' = nextEntity + 1
    /\ UNCHANGED <<signal, readers, iters, panicked, log, removed, hist,
                   world, listener, journal, damage>>

\* signal_event_update
GatedSignal ==
    /\ Running
    /\ signal' = TRUE
    /\ UNCHANGED <<events, entities, nextEntity, readers, iters, panicked,
                   log, removed, hist, world, listener, journal, damage,
                   ungated>>

\* event_update_systems: update_events.run_if(events_not_empty), then
\* reset_event_update_signal; without the run condition update_events
\* runs whenever the signal is set.
GatedUpdateSystems ==
    LET runs == EventsNotEmpty(events) /\ signal
        res == UpdateDrain(events)
        free == UpdateDrain(ungated.events)
    IN  /\ Running
        /\ events' = IF runs THEN res.queue ELSE events
        /\ entities' = IF runs THEN entities \ Range(res.drained)
                       ELSE entities
        /\ ungated' = [ungated EXCEPT
              !.events = IF signal THEN free.queue ELSE @,
              !.skipped_update = IF signal /\ ~runs THEN events.event_count
                                 ELSE @]
        /\ panicked' = panicked
              \cup (IF (runs /\ ~res.assert_ok) \/ (signal /\ ~free.assert_ok)
                    THEN {"update_drain: debug_assert_eq"} ELSE {})
        /\ signal' = FALSE
        /\ UNCHANGED <<nextEntity, readers, iters, log, removed, hist, world,
                       listener, journal, damage>>

\* A system that reads the queue to the end, under run_if(events_not_empty)
\* and without it.
GatedReadSystem ==
    LET runs == EventsNotEmpty(events)
        res == ReadAll(readers["r1"].last_event_count, events)
        free == ReadAll(ungated.last_event_count, ungated.events)
    IN  /\ Running
        /\ readers' = [readers EXCEPT !["r1"].last_event_count =
                          IF runs THEN res.last_event_count ELSE @]
        /\ ungated' = [ungated EXCEPT
              !.last_event_count = free.last_event_count,
              !.out = [gated |-> IF runs THEN res.items ELSE <<>>,
                       ungated |-> free.items],
              !.skipped_read = IF runs THEN @ ELSE events.event_count]
        /\ panicked' = panicked
              \cup (IF (runs /\ ~res.ok) \/ ~free.ok
                    THEN {"EntityEventIterator::new"} ELSE {})
        /\ UNCHANGED <<events, signal, entities, nextEntity, iters, log,
                       removed, hist, world, listener, journal, damage>>

\* EventEntities::clear, in both.
GatedClear ==
    /\ Running
    /\ events' = Clear(events)
    /\ ungated' = [ungated EXCEPT !.events = Clear(@)]
    /\ UNCHANGED <<signal, entities, nextEntity, readers, iters, panicked,
                   log, removed, hist, world, listener, journal, damage>>

NextGated ==
    \/ GatedSend
    \/ GatedSignal
    \/ GatedUpdateSystems
    \/ GatedReadSystem
    \/ GatedClear

SpecGated == InitGated /\ [][NextGated]_vars

\* C30: the run condition on a non-empty queue has no effect. update_drain
\* on a queue with both buffers empty leaves the queue as it was and
\* returns nothing; the application that skips update_events and the
\* reading system when the queue is empty has, at every step, the same
\* queue as the one that runs them always, and its reader was given the
\* same entities.
C30_GatingHasNoEffect ==
    /\ IsEmpty(events) =>
          /\ UpdateDrain(events).queue = events
          /\ UpdateDrain(events).drained = <<>>
    /\ ungated.events = events
    /\ ungated.out.gated = ungated.out.ungated
    /\ panicked = {}

\* With events already counted, an update and a read were skipped on the
\* empty queue; a later event was then given to both readers, the one
\* whose cursor had stayed behind included.
C30_Witness ==
    /\ ungated.skipped_update >= 1
    /\ ungated.skipped_read >= 1
    /\ ungated.out.gated # <<>>
    /\ ungated.out.gated[1] > ungated.skipped_read

\* ---------------------------------------------------------- swap_target

\* C31: the Target swap is undone. No callback of the model writes a
\* Target, so whenever no callback is running every event entity that
\* still exists, root or derivative, carries the Target it was sent with,
\* also after a callback that despawned only the derivative or only the
\* root it was run for.
C31_SwapUndone ==
    listener.pc # "run" =>
        \A k \in 1..Len(journal.sent) :
            journal.sent[k].entity \in entities =>
                world.payload[journal.sent[k].entity].target
                    = journal.sent[k].target

\* ------------------------------------- callbacks that register callbacks

\* The world in which the callback without Parent has not been added yet.
InitRegistering ==
    /\ events = DefaultEventEntities
    /\ signal = FALSE
    /\ entities = (Owners \cup CallbackEntities) \ {GlobalCallback}
    /\ nextEntity = FirstEvent
    /\ readers = [r \in Readers |-> NoReader]
    /\ iters = [r \in Readers |-> NoIter]
    /\ panicked = {}
    /\ log = <<>>
    /\ removed = 0
    /\ hist = [r \in Readers |-> NoHist]
    /\ world = SetupWorld
    /\ \E engine \in {"crate", "src"} : listener = NewListener(engine)
    /\ journal = NoJournal
    /\ damage = NoDamage
    /\ ungated = NoUngated

\* What the callbacks do in the runs in which one of them adds a callback.
RegisteringEffects == {"none", "add_callback"}

NextRegistering ==
    \/ \E kind \in Payloads : \E t \in Owners \cup {0} : SendEventTo(kind, t)
    \/ PropagateEvents
    \/ RunCallbacksBegin
    \/ ReadEvent
    \/ \E cb \in CallbackEntities : DeferredBegin(cb)
    \/ \E effect \in RegisteringEffects : CallbackRun(effect)
    \/ RunCallbacksEnd

SpecRegistering == InitRegistering /\ [][NextRegistering]_vars

\* C32: deferred execution. The callbacks run for a queued event are
\* among those selected for it before the first of them ran; a callback
\* entity added by a callback while the event is being dispatched is not
\* run for that event in that pass; and while a callback runs the
\* selection (ReadEvent) cannot take a step.
C32_DeferredExecution ==
    /\ \A i \in 1..Len(journal.ran) :
          (\E inv \in journal.ran[i].invocations :
                inv.effect = "add_callback")
              => \A inv \in journal.ran[i].invocations :
                    inv.callback_entity # GlobalCallback
    /\ (listener.pc \in {"apply", "run"} /\ listener.queue # <<>>) =>
          /\ Head(listener.queue).pending
                \subseteq Head(listener.queue).callbacks
          /\ \A i \in 1..Len(journal.ran) :
                journal.ran[i].event = Head(listener.queue).event =>
                    {inv.callback_entity : inv \in journal.ran[i].invocations}
                        \subseteq Head(listener.queue).callbacks
    /\ listener.pc = "run" => ~ENABLED ReadEvent

\* In crates/event_listener a callback run for the root event added the
\* callback without Parent; it was not run for the root event, and has
\* been run for the derivative that was selected afterwards.
C32_Witness ==
    /\ listener.engine = "crate"
    /\ Len(journal.ran) >= 2
    /\ ~IsPropagated(journal.ran[1].event)
    /\ \E inv \in journal.ran[1].invocations : inv.effect = "add_callback"
    /\ \E inv \in journal.ran[2].invocations :
          inv.callback_entity = GlobalCallback

\* ------------------------------------------------- the fixed schedule

\* An application with a reader system in the fixed schedule: its Local
\* reader exists from the start.
InitFixed ==
    /\ events = DefaultEventEntities
    /\ signal = FALSE
    /\ entities = {}
    /\ nextEntity = 1
    /\ readers = [r \in Readers |->
                    IF r = "r1"
                    THEN [exists |-> TRUE,
                          last_event_count |-> DefaultReader.last_event_count]
                    ELSE NoReader]
    /\ iters = [r \in Readers |-> NoIter]
    /\ panicked = {}
    /\ log = <<>>
    /\ removed = 0
    /\ hist = [r \in Readers |-> NoHist]
    /\ world = NoWorld
    /\ listener = NoListener
    /\ journal = NoJournal
    /\ damage = NoDamage
    /\ ungated = NoUngated

\* FixedUpdate of a run of the fixed schedule: the reader system reads
\* the queue to the end.
FixedRead ==
    LET res == ReadAll(readers["r1"].last_event_count, events)
    IN  /\ Running
        /\ listener.pc = "idle"
        /\ listener' = [listener EXCEPT !.pc = "fixed"]
        /\ readers' = [readers EXCEPT !["r1"].last_event_count =
                                            res.last_event_count]
        /\ hist' = [hist EXCEPT !["r1"].yielded = @ \o res.items,
                                !["r1"].pending = 0]
        /\ panicked' = panicked
              \cup (IF res.ok THEN {} ELSE {"EntityEventIterator::new"})
        /\ UNCHANGED <<events, signal, entities, nextEntity, iters, log,
                       removed, world, journal, damage, ungated>>

\* FixedPostUpdate of the same run: signal_event_update.
FixedSignal ==
    /\ Running
    /\ listener.pc = "fixed"
    /\ listener' = [listener EXCEPT !.pc = "idle"]
    /\ signal' = TRUE
    /\ UNCHANGED <<events, entities, nextEntity, readers, iters, panicked,
                   log, removed, hist, world, journal, damage, ungated>>

\* PostUpdate of a frame, outside the fixed schedule: event_update_systems.
FixedFrameUpdate ==
    /\ listener.pc = "idle"
    /\ RunEventUpdateSystems

NextFixed ==
    \/ SendEvent
    \/ \E k \in 0..MaxBatch : SendEventBatch(k)
    \/ FixedRead
    \/ FixedSignal
    \/ FixedFrameUpdate

SpecFixed == InitFixed /\ [][NextFixed]_vars

\* C33: signal-gated advance. A step of event_update_systems changes the
\* queue only if the signal was set, and always leaves the signal reset;
\* so the fixed schedule runs between any two advances, the reader that
\* reads in every run of the fixed schedule never goes two advances
\* without a read, and every event update_drain has returned had been
\* given to that reader before.
C33_SignalGatedAdvance ==
    /\ [][(events' # events /\ events'.event_count = events.event_count)
              => (signal /\ ~signal')]_vars
    /\ [](/\ panicked = {}
          /\ hist["r1"].compliant
          /\ hist["r1"].pending = 1 => ~signal
          /\ \A i \in 1..Len(log) :
                log[i].returned >= 1 =>
                    log[i].entity \in Range(hist["r1"].yielded))

\* The first event sent was given to the reader of the fixed schedule and
\* has then been dropped by its second advance, with a later event still
\* in the queue and no run of the fixed schedule since.
C33_Witness ==
    /\ Len(log) >= 1
    /\ log[1].returned = 1
    /\ hist["r1"].yielded # <<>>
    /\ hist["r1"].yielded[1] = log[1].entity
    /\ hist["r1"].pending = 1
    /\ events.event_count >= 2
    /\ ~IsEmpty(events)

\* ------------------------------- events sent while run_callbacks runs

\* The end of a frame whose fixed schedule has run, between two runs of
\* the listener schedule: signal_event_update has set the signal,
\* update_events (the queue is not empty) drains and despawns, and
\* reset_event_update_signal resets the signal. Only the frames in which
\* events_a is empty are followed: the events of events_b become the
\* older generation and nothing is dropped before it has been dispatched.
FrameUpdate ==
    /\ Running
    /\ listener.pc = "idle"
    /\ EventsNotEmpty(events)
    /\ events.events_a.events = <<>>
    /\ CallUpdateDrain
    /\ entities' = DespawnDrained(entities, UpdateDrain(events).drained)
    /\ UNCHANGED <<signal, nextEntity, readers, iters>>
    /\ UNCHANGED lvars

\* crates/event_listener, with TestEvents sent by the application and by
\* the callbacks.
InitFrames == InitListeners /\ listener.engine = "crate"

NextFrames ==
    \/ \E t \in Owners \cup {0} : SendEventTo("TestEvent", t)
    \/ PropagateEvents
    \/ RunCallbacksBegin
    \/ ReadEvent
    \/ \E cb \in CallbackEntities : DeferredBegin(cb)
    \/ \E effect \in CascadeEffects : CallbackRun(effect)
    \/ RunCallbacksEnd
    \/ FrameUpdate

SpecFrames == InitFrames /\ [][NextFrames]_vars

\* The entities the queue retains, oldest first.
RetainedSeq(q) == q.events_a.events \o q.events_b.events

DispatchedIn(e) ==
    UNION {Range(journal.calls[c]) : c \in {d \in DOMAIN journal.calls :
                                                d[2] = e}}

FamilyOf(r) ==
    {r} \cup {journal.sent[j].entity :
                 j \in {i \in 1..Len(journal.sent) :
                           journal.sent[i].propagated = r}}

\* The queued entities the callback entity cb was called for.
CalledFor(cb) == {c[2] : c \in {d \in DOMAIN journal.calls : d[1] = cb}}

\* The groups of the current pass in which cb was invoked.
GroupsOf(cb) ==
    {i \in 1..Len(journal.ran) :
        \E inv \in journal.ran[i].invocations : inv.callback_entity = cb}

\* C36: when a pass has dispatched a root TestEvent and nothing was
\* despawned, the global callback (no Parent) has been called once for the
\* root and once for each derivative, which is once more than the target
\* has ancestors; in a pass its first call for an event has is_propagated
\* false and its later calls for that event have is_propagated true.
C36_GlobalRunsForChain ==
    /\ (listener.pc = "idle" /\ panicked = {} /\ Despawns = 0) =>
          \A k \in Roots :
              (journal.sent[k].kind = "TestEvent" /\ listener.reader >= k) =>
                  LET r == journal.sent[k].entity
                      t == journal.sent[k].target
                  IN  /\ CalledFor(GlobalCallback) \cap FamilyOf(r)
                            = FamilyOf(r)
                      /\ Cardinality(FamilyOf(r))
                            = 1 + Cardinality(AncestorsOf(world, entities, t))
                      /\ \A e \in FamilyOf(r) :
                            Len(journal.calls[<<GlobalCallback, e>>]) = 1
    /\ \A i \in GroupsOf(GlobalCallback) :
          IsPropagated(journal.ran[i].event)
              <=> \E j \in GroupsOf(GlobalCallback) :
                     /\ j < i
                     /\ EventId(journal.ran[j].event)
                            = EventId(journal.ran[i].event)

\* A pass has dispatched a root TestEvent whose target has two ancestors
\* and the global callback has been called three times.
C36_Witness ==
    /\ listener.pc = "idle"
    /\ panicked = {}
    /\ Despawns = 0
    /\ \E k \in Roots :
          /\ journal.sent[k].kind = "TestEvent"
          /\ Cardinality(AncestorsOf(world, entities,
                                     journal.sent[k].target)) = 2
          /\ Cardinality(CalledFor(GlobalCallback)
                             \cap FamilyOf(journal.sent[k].entity)) = 3


\* ------------------------------------------------- partial consumption

\* What the iterator reader r dropped last had left, followed by the
\* events sent since, as a read() that starts at cursor `from` finds them.
LeftThenNew(r) ==
    LET left == hist[r].left
        sent_before == iters[r].from + Len(left)
    IN  left \o [i \in 1..(Len(log) - sent_before) |->
                    log[sent_before + i].entity]

\* The last n entities of the queue.
NewestOf(q, n) ==
    SubSeq(RetainedSeq(q), QueueLen(q) - n + 1, QueueLen(q))

C38_DrainedAreGone ==
    /\ panicked = {}
    /\ \A k \in 1..Len(journal.sent) :
          journal.sent[k].entity \notin Retained(events)
              => journal.sent[k].entity \notin entities

\* The raw reader under a query read yielded the id of an entity that had
\* been despawned while the queue listed it, update_events has since
\* drained that entity without an error, and it has also drained and
\* despawned an entity that was alive.
C38_Witness ==
    /\ panicked = {}
    /\ \E i \in 1..Len(journal.reads) :
          /\ ~journal.reads[i].alive
          /\ journal.reads[i].entity \notin Retained(events)
    /\ \E i \in 1..Len(journal.reads) :
          /\ journal.reads[i].alive
          /\ journal.reads[i].entity \notin Retained(events)
          /\ journal.reads[i].entity \notin entities


\* ------------------------------------------------- the loop ends

\* run_damage_schedule has been called and has not returned.
InDamageLoop == damage.pc \in DamageSystems \cup {"test"}

\* C39: run_damage_schedule returns only from the test at the end of a
\* pass, so it runs at least one pass; the test returns exactly when len()
\* is what it was at the start of the pass and otherwise starts another
\* pass; every pass before the current one enqueued at least one event, so
\* a call that enqueues n events makes at most n + 1 passes, and only a
\* call whose every pass enqueues an event goes on.
C39_LoopEnds ==
    /\ [][(damage'.pc = "returned" /\ damage.pc # "returned")
             => damage.pc = "test"]_vars
    /\ [][(damage.pc = "test" /\ damage' # damage) =>
             /\ damage'.pc = "returned"
                   <=> QueueLen(events) = damage.event_count
             /\ damage'.pc # "returned" =>
                   /\ damage'.pc = AttackSystems[1]
                   /\ damage'.passes = damage.passes + 1]_vars
    /\ []((InDamageLoop \/ damage.pc = "returned") =>
             /\ damage.passes >= 1
             /\ \A p \in 1..(damage.passes - 1) :
                   \E k \in 1..Len(damage.sent) : damage.sent[k].pass = p
             /\ damage.passes <= Len(damage.sent) + 1)

\* run_damage_schedule has returned after two passes: the first enqueued
\* one event and the second none.
C39_Witness ==
    /\ damage.pc = "returned"
    /\ damage.passes = 2
    /\ Len(damage.sent) = 1
    /\ QueueLen(events) = damage.event_count

====
